---- MODULE Spec2Model ----
(***************************************************************************)
(* Model of the fixture / date-section reconciliation pipeline of the      *)
(* football dashboard: the date-window calculator (getDateRange), the      *)
(* score assembler (fetchFootballScores, step 3 and 4), the forecast       *)
(* evaluator (isForecastCorrect, determineActualOutcome) and the base-data *)
(* cron handler that reconciles a fetched batch with the cache table.      *)
(*                                                                         *)
(* Instants are whole hours since 1970-01-01T00:00Z: getDay, getHours,     *)
(* getISOWeek, getYear and format(.., "yyyy-MM-dd") read nothing finer     *)
(* than the hour, and addDays moves by whole days.  A zoned Date (the      *)
(* result of toZonedTime) is the count of wall-clock hours in Sofia.       *)
(***************************************************************************)
EXTENDS Integers, Sequences, FiniteSets, TLC

VARIABLES
    referenceDateInput, \* getDateRange: the reference instant (UTC hours)
    dateRangeInfo,      \* getDateRange: the value returned, or NoResult
    allApiFixtures,     \* fetchFootballScores: the fixtures of all dates, flattened
    allOddsFixtures,    \* fetchFootballScores: the odds entries of all dates, flattened
    combinedScores,     \* fetchFootballScores: the rows returned
    asmPhase,           \* "input" before the call, "returned" after it
    evalScore,          \* forecast evaluator: the score {home, away}
    evalForecast,       \* forecast evaluator: the forecast label
    evalIsCorrect,      \* the value returned by isForecastCorrect
    evalOutcome,        \* the value returned by determineActualOutcome
    evalPhase,          \* "input" before the calls, "returned" after them
    clock,              \* the wall clock (new Date()), minutes since the epoch
    footballScores,     \* the cache table: a set of rows
    forecastHistory,    \* the forecast-history table: a set of rows
    apiCache,           \* the cache-marker table: a set of rows
    pc,                 \* per invocation of the base-data handler: its position
    local,              \* per invocation: the handler's local variables
    pageInput,          \* fetchAllPages: what the upstream answers, page by page
    pageOutput,         \* fetchAllPages, fetchFootballScores: what they did
    pagePhase           \* "input" before the calls, "returned" after them

dateVars == <<referenceDateInput, dateRangeInfo>>

asmVars == <<allApiFixtures, allOddsFixtures, combinedScores, asmPhase>>

evalVars == <<evalScore, evalForecast, evalIsCorrect, evalOutcome, evalPhase>>

dbVars == <<footballScores, forecastHistory, apiCache>>

cronVars == <<clock, footballScores, forecastHistory, apiCache, pc, local>>

vars == <<referenceDateInput, dateRangeInfo,
          allApiFixtures, allOddsFixtures, combinedScores, asmPhase,
          evalScore, evalForecast, evalIsCorrect, evalOutcome, evalPhase,
          clock, footballScores, forecastHistory, apiCache, pc, local,
          pageInput, pageOutput, pagePhase>>

pageVars == <<pageInput, pageOutput, pagePhase>>

NoResult == [none |-> TRUE]

PageIdle ==
    /\ pageInput = NoResult
    /\ pageOutput = NoResult
    /\ pagePhase = "idle"

(***************************************************************************)
(* Calendar arithmetic of the Date object and of date-fns.                 *)
(***************************************************************************)

\* Day number (days since 1970-01-01) of a proleptic Gregorian date.
DaysFromCivil(y, m, d) ==
    LET yy  == IF m <= 2 THEN y - 1 ELSE y
        era == yy \div 400
        yoe == yy - era * 400
        mp  == IF m > 2 THEN m - 3 ELSE m + 9
        doy == (153 * mp + 2) \div 5 + d - 1
        doe == yoe * 365 + yoe \div 4 - yoe \div 100 + doy
    IN  era * 146097 + doe - 719468

\* The Gregorian date of a day number.
CivilFromDays(z0) ==
    LET z   == z0 + 719468
        era == z \div 146097
        doe == z - era * 146097
        yoe == (doe - doe \div 1460 + doe \div 36524 - doe \div 146096) \div 365
        doy == doe - (365 * yoe + yoe \div 4 - yoe \div 100)
        mp  == (5 * doy + 2) \div 153
        d   == doy - (153 * mp + 2) \div 5 + 1
        m   == IF mp < 10 THEN mp + 3 ELSE mp - 9
        y   == yoe + era * 400 + (IF m <= 2 THEN 1 ELSE 0)
    IN  [year |-> y, month |-> m, day |-> d]

\* The day number of an instant given in hours.
DayOf(t) == t \div 24

\* getDay: 0 = Sunday .. 6 = Saturday (1970-01-01 was a Thursday).
getDay(t) == (DayOf(t) + 4) % 7

\* getHours: the hour of the day.
getHours(t) == t % 24

\* getYear: the calendar year.
getYear(t) == CivilFromDays(DayOf(t)).year

\* addDays: the same wall-clock time, n days later.
addDays(t, n) == t + 24 * n

\* startOfISOWeek, as a day number: the Monday on or before the day.
startOfISOWeek(day) == day - ((day + 3) % 7)

\* getISOWeekYear: the year whose ISO week numbering the day belongs to.
getISOWeekYear(day) ==
    LET year            == CivilFromDays(day).year
        startOfNextYear == startOfISOWeek(DaysFromCivil(year + 1, 1, 4))
        startOfThisYear == startOfISOWeek(DaysFromCivil(year, 1, 4))
    IN  IF day >= startOfNextYear THEN year + 1
        ELSE IF day >= startOfThisYear THEN year
        ELSE year - 1

\* startOfISOWeekYear, as a day number.
startOfISOWeekYear(day) ==
    startOfISOWeek(DaysFromCivil(getISOWeekYear(day), 1, 4))

\* getISOWeek: the ISO 8601 week number, 1..53.
getISOWeek(t) ==
    (startOfISOWeek(DayOf(t)) - startOfISOWeekYear(DayOf(t))) \div 7 + 1

\* The last Sunday of a 31-day month, as a day number.
LastSundayOf(year, month) ==
    LET last == DaysFromCivil(year, month, 31)
    IN  last - ((last + 4) % 7)

\* The offset of Europe/Sofia from UTC, in hours: EET (+2), and EEST (+3)
\* from 01:00 UTC of the last Sunday of March to 01:00 UTC of the last
\* Sunday of October.
SofiaOffset(utc) ==
    LET year == CivilFromDays(DayOf(utc)).year
    IN  IF /\ utc >= 24 * LastSundayOf(year, 3) + 1
           /\ utc <  24 * LastSundayOf(year, 10) + 1
        THEN 3 ELSE 2

\* toZonedTime(date, SOFIA_TIMEZONE): the wall clock of Sofia at the instant.
toZonedTime(utc) == utc + SofiaOffset(utc)

\* format(date, "yyyy-MM-dd"): the calendar date of a zoned Date.
formatDate(t) ==
    LET c == CivilFromDays(DayOf(t)) IN <<c.year, c.month, c.day>>

(***************************************************************************)
(* Date-window calculator: getDateRange.                                   *)
(***************************************************************************)

\* Mutant of isSatMonWindow: the Saturday cutover tested with > instead of >=.
isSatMonWindow_StrictHour(currentDay, currentHour) ==
    \/ (currentDay = 6 /\ currentHour > 10)
    \/ currentDay = 0
    \/ currentDay = 1
    \/ (currentDay = 2 /\ currentHour < 10)

\* The test of the Sat 10:00 .. Tue 10:00 window on the local weekday and hour.
isSatMonWindow(currentDay, currentHour) ==
    \/ (currentDay = 6 /\ currentHour >= 10)
    \/ currentDay = 0
    \/ currentDay = 1
    \/ (currentDay = 2 /\ currentHour < 10)

\* sectionType of a zoned reference date.
sectionTypeOf(referenceDate) ==
    IF isSatMonWindow(getDay(referenceDate), getHours(referenceDate))
    THEN "SatMon" ELSE "TueFri"

\* Mutant of sectionStartOf: the final else branches go back one day too few.
sectionStartOf_ShortElse(referenceDate) ==
    LET currentDay  == getDay(referenceDate)
        currentHour == getHours(referenceDate)
    IN  IF isSatMonWindow(currentDay, currentHour)
        THEN IF currentDay = 6 /\ currentHour >= 10 THEN referenceDate
             ELSE IF currentDay = 0 THEN addDays(referenceDate, -1)
             ELSE IF currentDay = 1 THEN addDays(referenceDate, -2)
             ELSE addDays(referenceDate, -2)
        ELSE IF currentDay = 2 /\ currentHour >= 10 THEN referenceDate
             ELSE IF currentDay = 3 THEN addDays(referenceDate, -1)
             ELSE IF currentDay = 4 THEN addDays(referenceDate, -2)
             ELSE IF currentDay = 5 THEN addDays(referenceDate, -3)
             ELSE addDays(referenceDate, -3)

\* sectionStart of a zoned reference date: the if/else-if chains of both
\* branches.
sectionStartOf(referenceDate) ==
    LET currentDay  == getDay(referenceDate)
        currentHour == getHours(referenceDate)
    IN  IF isSatMonWindow(currentDay, currentHour)
        THEN IF currentDay = 6 /\ currentHour >= 10 THEN referenceDate
             ELSE IF currentDay = 0 THEN addDays(referenceDate, -1)
             ELSE IF currentDay = 1 THEN addDays(referenceDate, -2)
             ELSE addDays(referenceDate, -3)
        ELSE IF currentDay = 2 /\ currentHour >= 10 THEN referenceDate
             ELSE IF currentDay = 3 THEN addDays(referenceDate, -1)
             ELSE IF currentDay = 4 THEN addDays(referenceDate, -2)
             ELSE IF currentDay = 5 THEN addDays(referenceDate, -3)
             ELSE addDays(referenceDate, -4)

\* referenceDateForWeek: the reference date itself, except in the two final
\* else branches, which replace it by sectionStart.
referenceDateForWeekOf(referenceDate) ==
    LET currentDay  == getDay(referenceDate)
        currentHour == getHours(referenceDate)
    IN  IF isSatMonWindow(currentDay, currentHour)
        THEN IF currentDay = 6 /\ currentHour >= 10 THEN referenceDate
             ELSE IF currentDay = 0 THEN referenceDate
             ELSE IF currentDay = 1 THEN referenceDate
             ELSE sectionStartOf(referenceDate)
        ELSE IF currentDay = 2 /\ currentHour >= 10 THEN referenceDate
             ELSE IF currentDay = 3 THEN referenceDate
             ELSE IF currentDay = 4 THEN referenceDate
             ELSE IF currentDay = 5 THEN referenceDate
             ELSE sectionStartOf(referenceDate)

\* sectionEnd: start + 2 days (SatMon) or start + 3 days (TueFri).
sectionEndOf(referenceDate) ==
    IF sectionTypeOf(referenceDate) = "SatMon"
    THEN addDays(sectionStartOf(referenceDate), 2)
    ELSE addDays(sectionStartOf(referenceDate), 3)

\* Mutant of datesLoopContinues: isBefore alone, the end day left out.
datesLoopContinues_NoEqual(currentDate, sectionEnd) ==
    currentDate < sectionEnd

\* The condition of the while loop: isBefore(..) || isEqual(..).
datesLoopContinues(currentDate, sectionEnd) ==
    currentDate < sectionEnd \/ currentDate = sectionEnd

\* The while loop that pushes one formatted date per day.
RECURSIVE datesLoop(_, _)
datesLoop(currentDate, sectionEnd) ==
    IF datesLoopContinues(currentDate, sectionEnd)
    THEN <<formatDate(currentDate)>>
             \o datesLoop(addDays(currentDate, 1), sectionEnd)
    ELSE <<>>

\* The section identifier `${year}-W${week, 2 digits}-${sectionType}`, kept as
\* the triple of its three fields (the string is one-to-one with the triple).
sectionIdOf(referenceDate) ==
    <<getYear(referenceDateForWeekOf(referenceDate)),
      getISOWeek(referenceDateForWeekOf(referenceDate)),
      sectionTypeOf(referenceDate)>>

\* getDateRange(referenceDateInput), referenceDateInput an instant in UTC hours.
getDateRange(instant) ==
    LET referenceDate == toZonedTime(instant)
    IN  [dates     |-> datesLoop(sectionStartOf(referenceDate),
                                 sectionEndOf(referenceDate)),
         sectionId |-> sectionIdOf(referenceDate),
         startDate |-> sectionStartOf(referenceDate),
         endDate   |-> sectionEndOf(referenceDate)]

\* Mutant of endsWithSatMon: every section passes for a SatMon one.
endsWithSatMon_Always(sectionId) == TRUE

\* sectionId.endsWith("-SatMon")
endsWithSatMon(sectionId) == sectionId[3] = "SatMon"

(***************************************************************************)
(* Score assembler: steps 3 and 4 of fetchFootballScores, applied to the   *)
(* flattened results of the per-date requests.                             *)
(***************************************************************************)

\* The elements of a list.
Range(list) == {list[i] : i \in DOMAIN list}

\* null, for a number | null field (goals are never negative).
Null == -1

MATCH_WINNER_BET_ID == 1

TARGET_BOOKMAKER_ID == 6

LEAGUE_IDS ==
    {39, 40, 41, 42, 43, 49, 50, 51, 48, 45, 140, 556, 141, 135, 547, 136,
     78, 79, 529, 61, 62, 63, 66, 188, 179, 180, 183, 184, 103, 104, 113,
     114, 94, 95, 119, 120, 88, 245, 244, 98, 99, 292, 253, 219, 144, 207,
     197, 203, 172, 71, 72, 128, 129, 271, 383, 283, 345, 262, 263, 106,
     235, 848, 1, 2, 3, 4}

\* parseISO(..).getTime() of an upstream date <<year, month, day, hour>> (UTC),
\* in hours.
parseISO(date) == 24 * DaysFromCivil(date[1], date[2], date[3]) + date[4]

\* format(parseISO(date), "EEEE, MMM d"): weekday, month and day of the month
\* read from the Date's own fields.
formatDay(date) ==
    LET t == parseISO(date)
        c == CivilFromDays(DayOf(t))
    IN  <<getDay(t), c.month, c.day>>

\* Array.prototype.find with a test given as the set of matching elements:
\* the first match, or <<>> for undefined.
RECURSIVE find(_, _)
find(list, matching) ==
    IF list = <<>> THEN <<>>
    ELSE IF Head(list) \in matching THEN <<Head(list)>>
    ELSE find(Tail(list), matching)

\* bet.values.find((v) => v.value === name)?.odd, "" for undefined.
oddOf(values, name) ==
    LET v == find(values, {x \in {values[i] : i \in DOMAIN values} : x.value = name})
    IN  IF v = <<>> THEN "" ELSE v[1].odd

\* Mutant of allThreeOdds: the away odd is not tested.
allThreeOdds_NoAway(h, d, a) == h # "" /\ d # ""

\* The truthiness test of the three odds: h && d && a.
allThreeOdds(h, d, a) == h # "" /\ d # "" /\ a # ""

\* The body of allOddsFixtures.forEach: oddsMap after one odds entry.
oddsMapSet(oddsMap, oFix) ==
    LET b   == find(oFix.bookmakers,
                    {x \in {oFix.bookmakers[i] : i \in DOMAIN oFix.bookmakers} :
                        x.id = TARGET_BOOKMAKER_ID})
        bet == IF b = <<>> THEN <<>>
               ELSE find(b[1].bets,
                         {x \in {b[1].bets[i] : i \in DOMAIN b[1].bets} :
                             x.id = MATCH_WINNER_BET_ID})
        h   == IF bet = <<>> THEN "" ELSE oddOf(bet[1].values, "Home")
        d   == IF bet = <<>> THEN "" ELSE oddOf(bet[1].values, "Draw")
        a   == IF bet = <<>> THEN "" ELSE oddOf(bet[1].values, "Away")
    IN  IF bet # <<>> /\ allThreeOdds(h, d, a)
        THEN [id \in DOMAIN oddsMap \cup {oFix.fixture.id} |->
                 IF id = oFix.fixture.id
                 THEN [home |-> h, draw |-> d, away |-> a]
                 ELSE oddsMap[id]]
        ELSE oddsMap

\* Step 3: the odds entries folded, in order, into oddsMap.
RECURSIVE buildOddsMap(_, _)
buildOddsMap(oddsFixtures, oddsMap) ==
    IF oddsFixtures = <<>> THEN oddsMap
    ELSE buildOddsMap(Tail(oddsFixtures), oddsMapSet(oddsMap, Head(oddsFixtures)))

\* allApiFixtures.filter((f) => leagueIds.includes(f.league.id))
filterByLeague(fixtures, leagueIds) ==
    SelectSeq(fixtures, LAMBDA f : f.league.id \in leagueIds)

\* The test of the filtering step: odds were found in the map.
hasFixtureOdds(oddsMap, fixtureId) == fixtureId \in DOMAIN oddsMap

\* Step 4, map and filter: one row, rowNumber 0, per fixture with odds.
RECURSIVE combine(_, _)
combine(fixtures, oddsMap) ==
    IF fixtures = <<>> THEN <<>>
    ELSE LET f == Head(fixtures)
         IN  (IF hasFixtureOdds(oddsMap, f.fixture.id)
              THEN <<[day       |-> formatDay(f.fixture.date),
                      rowNumber |-> 0,
                      fixtureId |-> f.fixture.id,
                      startTime |-> f.fixture.date,
                      status    |-> f.fixture.status,
                      home      |-> f.teams.home,
                      away      |-> f.teams.away,
                      score     |-> f.goals,
                      league    |-> f.league,
                      odds      |-> oddsMap[f.fixture.id]]>>
              ELSE <<>>)
             \o combine(Tail(fixtures), oddsMap)

\* Mutant of compareStartTime: the operands swapped (a descending sort).
compareStartTime_Swapped(a, b) == parseISO(b.startTime) - parseISO(a.startTime)

\* The comparator of the sort: negative, zero or positive.
compareStartTime(a, b) == parseISO(a.startTime) - parseISO(b.startTime)

\* Mutant of insertSorted: the row goes before the rows it compares equal to.
RECURSIVE insertSorted_BeforeEqual(_, _)
insertSorted_BeforeEqual(sorted, row) ==
    IF sorted = <<>> THEN <<row>>
    ELSE IF compareStartTime(Head(sorted), row) >= 0 THEN <<row>> \o sorted
    ELSE <<Head(sorted)>> \o insertSorted_BeforeEqual(Tail(sorted), row)

\* One row put into a sorted list, after every row that does not compare
\* greater (Array.prototype.sort is stable).
RECURSIVE insertSorted(_, _)
insertSorted(sorted, row) ==
    IF sorted = <<>> THEN <<row>>
    ELSE IF compareStartTime(Head(sorted), row) > 0 THEN <<row>> \o sorted
    ELSE <<Head(sorted)>> \o insertSorted(Tail(sorted), row)

\* combinedScores.sort(...)
RECURSIVE sortByStartTime(_, _)
sortByStartTime(rows, sorted) ==
    IF rows = <<>> THEN sorted
    ELSE sortByStartTime(Tail(rows), insertSorted(sorted, Head(rows)))

\* The row number given to the row at 0-based position index.
rowNumberAt(index) == index + 1

\* combinedScores.forEach((score, index) => score.rowNumber = index + 1)
assignRowNumbers(rows) ==
    [i \in DOMAIN rows |-> [rows[i] EXCEPT !.rowNumber = rowNumberAt(i - 1)]]

\* fetchFootballScores from the league filter on: the rows returned for the
\* fixtures and odds entries that the requests delivered.
assemble(leagueIds, fixtures, oddsFixtures) ==
    LET allFixturesWithDay == filterByLeague(fixtures, leagueIds)
    IN  IF Len(allFixturesWithDay) = 0 THEN <<>>
        ELSE assignRowNumbers(
                 sortByStartTime(
                     combine(allFixturesWithDay,
                             buildOddsMap(oddsFixtures, <<>>)),
                     <<>>))

AsmIdle ==
    /\ allApiFixtures = <<>>
    /\ allOddsFixtures = <<>>
    /\ combinedScores = <<>>
    /\ asmPhase = "idle"

(***************************************************************************)
(* Forecast evaluator: isForecastCorrect and determineActualOutcome.       *)
(***************************************************************************)

\* typeof x === "number", for a number | null value.
isNumber(x) == x # Null

\* null, for a string | null value.
NullOutcome == "null"

\* Mutant of isForecastCorrect: the case "1/2" answers as the case "1/X".
isForecastCorrect_CopiedCase(score, forecast) ==
    IF ~isNumber(score.home) \/ ~isNumber(score.away) THEN FALSE
    ELSE LET homeWin == score.home > score.away
             awayWin == score.home < score.away
             draw    == score.home = score.away
         IN  CASE forecast = "1/X" -> homeWin \/ draw
               [] forecast = "1/2" -> homeWin \/ draw
               [] forecast = "X/2" -> draw \/ awayWin
               [] OTHER -> FALSE

isForecastCorrect(score, forecast) ==
    IF ~isNumber(score.home) \/ ~isNumber(score.away) THEN FALSE
    ELSE LET homeWin == score.home > score.away
             awayWin == score.home < score.away
             draw    == score.home = score.away
         IN  CASE forecast = "1/X" -> homeWin \/ draw
               [] forecast = "1/2" -> homeWin \/ awayWin
               [] forecast = "X/2" -> draw \/ awayWin
               [] OTHER -> FALSE

\* Mutant of determineActualOutcome: only the home score is type-checked.
determineActualOutcome_HomeOnly(score) ==
    IF ~isNumber(score.home) THEN NullOutcome
    ELSE IF score.home > score.away THEN "1"
    ELSE IF score.home < score.away THEN "2"
    ELSE "X"

determineActualOutcome(score) ==
    IF ~isNumber(score.home) \/ ~isNumber(score.away) THEN NullOutcome
    ELSE IF score.home > score.away THEN "1"
    ELSE IF score.home < score.away THEN "2"
    ELSE "X"

EvalIdle ==
    /\ evalScore = [home |-> Null, away |-> Null]
    /\ evalForecast = ""
    /\ evalIsCorrect = FALSE
    /\ evalOutcome = NullOutcome
    /\ evalPhase = "idle"

(***************************************************************************)
(* Base-data cron handler (GET of update-section-data): the cooldown       *)
(* check, the fetch, and the reconciliation transaction.                   *)
(***************************************************************************)

CACHE_DURATION_MINUTES == 15

cacheKey == "football_scores_base_data"

\* The hour an instant given in minutes lies in.
hoursOf(minutes) == minutes \div 60

\* subMinutes(now, CACHE_DURATION_MINUTES)
cacheExpiredTime(now) == now - CACHE_DURATION_MINUTES

\* db.query.apiCache.findFirst({ where: eq(apiCache.key, cacheKey) }): the
\* set holding the row found, empty for undefined.
findCacheEntry(table) ==
    IF \E r \in table : r.key = cacheKey
    THEN {CHOOSE r \in table : r.key = cacheKey}
    ELSE {}

\* Mutant of fetchedRecently: a marker exactly one cooldown old counts as
\* recent.
fetchedRecently_Inclusive(cacheEntry, now) ==
    \E e \in cacheEntry : e.lastFetched >= cacheExpiredTime(now)

\* Mutant of fetchedRecently: the marker is never recent.
fetchedRecently_Never(cacheEntry, now) == FALSE

\* The test of the early exit: cacheEntry && lastFetched > cacheExpiredTime.
fetchedRecently(cacheEntry, now) ==
    \E e \in cacheEntry : e.lastFetched > cacheExpiredTime(now)

\* The upstream's answer to fixtures?date=<date>: the fixtures of the
\* catalogue that kick off on that date (UTC).
fixturesOnDate(catalogue, date) ==
    SelectSeq(catalogue, LAMBDA f : <<f.fixture.date[1], f.fixture.date[2],
                                      f.fixture.date[3]>> = date)

\* The upstream's answer to odds?date=<date>&bookmaker=..&bet=..: the odds
\* entries of the fixtures that kick off on that date.
oddsOnDate(catalogue, oddsCatalogue, date) ==
    SelectSeq(oddsCatalogue,
              LAMBDA o : \E i \in DOMAIN catalogue :
                  /\ catalogue[i].fixture.id = o.fixture.id
                  /\ <<catalogue[i].fixture.date[1], catalogue[i].fixture.date[2],
                       catalogue[i].fixture.date[3]>> = date)

\* fixturesByDate.forEach(.. concat ..): the per-date results, flattened.
RECURSIVE flatten(_)
flatten(lists) ==
    IF lists = <<>> THEN <<>> ELSE Head(lists) \o flatten(Tail(lists))

\* fetchFootballScores(leagueIds, dateRangeInfo) against an upstream that
\* answers every request.
fetchFootballScores(leagueIds, rangeInfo, catalogue, oddsCatalogue) ==
    assemble(leagueIds,
             flatten([i \in DOMAIN rangeInfo.dates |->
                         fixturesOnDate(catalogue, rangeInfo.dates[i])]),
             flatten([i \in DOMAIN rangeInfo.dates |->
                         oddsOnDate(catalogue, oddsCatalogue, rangeInfo.dates[i])]))

\* The static table rowNumber -> forecast label.
rowForecastMap ==
    <<[rowNumber |-> 1, forecast |-> "1/X"],
      [rowNumber |-> 2, forecast |-> "X/2"],
      [rowNumber |-> 5, forecast |-> "1/2"]>>

\* null, for the forecast label.
NoForecast == "null"

\* getForecast(rowNumber)
getForecast(rowNumber) ==
    LET item == find(rowForecastMap,
                     {x \in Range(rowForecastMap) : x.rowNumber = rowNumber})
    IN  IF item = <<>> THEN NoForecast ELSE item[1].forecast

\* The rows of the cache table with the given fixtureId.
rowsOf(table, fixtureId) == {r \in table : r.fixtureId = fixtureId}

\* The values of tx.insert(footballScores).values({..}).
scoreRow(currentScore, now) ==
    [fixtureId   |-> currentScore.fixtureId,
     rowNumber   |-> currentScore.rowNumber,
     day         |-> currentScore.day,
     startTime   |-> parseISO(currentScore.startTime),
     status      |-> currentScore.status,
     home        |-> currentScore.home,
     away        |-> currentScore.away,
     score       |-> currentScore.score,
     league      |-> currentScore.league,
     odds        |-> currentScore.odds,
     lastUpdated |-> now]

\* Mutant of upsertScore: a plain insert, the conflict on fixtureId ignored.
upsertScore_InsertOnly(table, currentScore, now) ==
    table \cup {scoreRow(currentScore, now)}

\* Mutant of upsertScore: on a conflict the row number stays.
upsertScore_KeepRowNumber(table, currentScore, now) ==
    IF rowsOf(table, currentScore.fixtureId) = {}
    THEN table \cup {scoreRow(currentScore, now)}
    ELSE (table \ rowsOf(table, currentScore.fixtureId))
         \cup {[r EXCEPT !.day         = currentScore.day,
                         !.startTime   = parseISO(currentScore.startTime),
                         !.home        = currentScore.home,
                         !.away        = currentScore.away,
                         !.league      = currentScore.league,
                         !.odds        = currentScore.odds,
                         !.status      = currentScore.status,
                         !.score       = currentScore.score,
                         !.lastUpdated = now]
               : r \in rowsOf(table, currentScore.fixtureId)}

\* tx.insert(footballScores).values(..).onConflictDoUpdate({ target:
\* footballScores.fixtureId, set: {..} })
upsertScore(table, currentScore, now) ==
    IF rowsOf(table, currentScore.fixtureId) = {}
    THEN table \cup {scoreRow(currentScore, now)}
    ELSE (table \ rowsOf(table, currentScore.fixtureId))
         \cup {[r EXCEPT !.rowNumber   = currentScore.rowNumber,
                         !.day         = currentScore.day,
                         !.startTime   = parseISO(currentScore.startTime),
                         !.home        = currentScore.home,
                         !.away        = currentScore.away,
                         !.league      = currentScore.league,
                         !.odds        = currentScore.odds,
                         !.status      = currentScore.status,
                         !.score       = currentScore.score,
                         !.lastUpdated = now]
               : r \in rowsOf(table, currentScore.fixtureId)}

\* existingScoresMap: status and score by fixtureId, read at the start of the
\* transaction.
existingScoresMapOf(table) ==
    [id \in {r.fixtureId : r \in table} |->
        LET r == CHOOSE x \in table : x.fixtureId = id
        IN  [status |-> r.status, score |-> r.score]]

\* existingData?.status?.short, "" for undefined.
previousStatusShort(existingScoresMap, fixtureId) ==
    IF fixtureId \in DOMAIN existingScoresMap
    THEN existingScoresMap[fixtureId].status.short
    ELSE ""

\* Mutant of justFinished: the previous status is not looked at.
justFinished_AnyFT(currentStatus, previousShort) ==
    currentStatus.short = "FT"

\* justFinished
justFinished(currentStatus, previousShort) ==
    currentStatus.short = "FT" /\ previousShort # "FT"

\* Mutant of upsertHistory: a plain insert, the conflict on the pair ignored.
upsertHistory_InsertOnly(history, row) == history \cup {row}

\* Mutant of upsertHistory: on a conflict the row number and the label stay.
upsertHistory_KeepLabel(history, row) ==
    LET conflict == {h \in history : /\ h.fixtureId = row.fixtureId
                                     /\ h.weekSectionId = row.weekSectionId}
    IN  IF conflict = {} THEN history \cup {row}
        ELSE (history \ conflict)
             \cup {[h EXCEPT !.isCorrect     = row.isCorrect,
                             !.actualOutcome = row.actualOutcome]
                   : h \in conflict}

\* tx.insert(forecastHistory).values(..).onConflictDoUpdate({ target:
\* [fixtureId, weekSectionId], set: {..} })
upsertHistory(history, row) ==
    LET conflict == {h \in history : /\ h.fixtureId = row.fixtureId
                                     /\ h.weekSectionId = row.weekSectionId}
    IN  IF conflict = {} THEN history \cup {row}
        ELSE (history \ conflict)
             \cup {[h EXCEPT !.isCorrect     = row.isCorrect,
                             !.actualOutcome = row.actualOutcome,
                             !.rowNumber     = row.rowNumber,
                             !.forecast      = row.forecast]
                   : h \in conflict}

\* Mutant of checkPrediction: the goals are not tested for being numbers.
checkPrediction_NoScoreTest(history, currentScore, previousShort) ==
    IF ~justFinished(currentScore.status, previousShort) THEN history
    ELSE LET sectionInfo      == getDateRange(parseISO(currentScore.startTime))
             fixtureSectionId == sectionInfo.sectionId
             forecast         == getForecast(currentScore.rowNumber)
         IN  IF endsWithSatMon(fixtureSectionId) /\ forecast # NoForecast
             THEN upsertHistory(history,
                      [fixtureId     |-> currentScore.fixtureId,
                       rowNumber     |-> currentScore.rowNumber,
                       weekSectionId |-> fixtureSectionId,
                       forecast      |-> forecast,
                       isCorrect     |-> isForecastCorrect(currentScore.score, forecast),
                       actualOutcome |-> determineActualOutcome(currentScore.score)])
             ELSE history

\* The prediction-checking block of the loop body: forecastHistory after one
\* fetched score.
checkPrediction(history, currentScore, previousShort) ==
    IF ~justFinished(currentScore.status, previousShort) THEN history
    ELSE LET sectionInfo      == getDateRange(parseISO(currentScore.startTime))
             fixtureSectionId == sectionInfo.sectionId
             forecast         == getForecast(currentScore.rowNumber)
         IN  IF /\ endsWithSatMon(fixtureSectionId)
                /\ forecast # NoForecast
                /\ isNumber(currentScore.score.home)
                /\ isNumber(currentScore.score.away)
             THEN upsertHistory(history,
                      [fixtureId     |-> currentScore.fixtureId,
                       rowNumber     |-> currentScore.rowNumber,
                       weekSectionId |-> fixtureSectionId,
                       forecast      |-> forecast,
                       isCorrect     |-> isForecastCorrect(currentScore.score, forecast),
                       actualOutcome |-> determineActualOutcome(currentScore.score)])
             ELSE history

\* The loop over fetchedScoresWithOdds: both tables after it.
RECURSIVE processScores(_, _, _, _, _)
processScores(scores, existingScoresMap, now, table, history) ==
    IF scores = <<>> THEN [footballScores |-> table, forecastHistory |-> history]
    ELSE processScores(
             Tail(scores), existingScoresMap, now,
             upsertScore(table, Head(scores), now),
             checkPrediction(history, Head(scores),
                 previousStatusShort(existingScoresMap, Head(scores).fixtureId)))

\* processedFixtureIds after the loop.
processedFixtureIdsOf(scores) == {scores[i].fixtureId : i \in DOMAIN scores}

\* Mutant of idsToDeleteOf: nothing is found to delete.
idsToDeleteOf_Nothing(existingFixtureIds, processedFixtureIds) == {}

\* Mutant of idsToDeleteOf: an empty batch deletes nothing.
idsToDeleteOf_UnlessEmptyBatch(existingFixtureIds, processedFixtureIds) ==
    IF processedFixtureIds = {} THEN {}
    ELSE {id \in existingFixtureIds : id \notin processedFixtureIds}

\* idsToDelete = existingFixtureIds.filter((id) => !processedFixtureIds.has(id))
idsToDeleteOf(existingFixtureIds, processedFixtureIds) ==
    {id \in existingFixtureIds : id \notin processedFixtureIds}

\* tx.delete(footballScores).where(inArray(footballScores.fixtureId, ids))
deleteScores(table, ids) == {r \in table : r.fixtureId \notin ids}

\* Mutant of updateApiCache: the marker is left as it is.
updateApiCache_Untouched(table, cacheEntry, now) == table

\* The update of apiCache at the end of the transaction: update .. where key,
\* or insert when no entry was found by the cache check.
updateApiCache(table, cacheEntry, now) ==
    IF cacheEntry # {}
    THEN {IF r.key = cacheKey THEN [r EXCEPT !.lastFetched = now] ELSE r
          : r \in table}
    ELSE table \cup {[key |-> cacheKey, lastFetched |-> now]}

\* The insert of the marker row meets a row with the same key.
markerConflict(table, cacheEntry) ==
    cacheEntry = {} /\ \E r \in table : r.key = cacheKey

\* The requests the handler serves, each of them once; they may overlap.
Invocations == {"a", "b"}

\* The handler's locals before it starts; rapidApiKey is whether
\* process.env.RAPIDAPI_KEY was found set, requests the number of upstream
\* requests issued.
InitialLocal ==
    [now                |-> 0,
     cacheEntry         |-> {},
     fetchedScores      |-> <<>>,
     existingFixtureIds |-> {},
     idsToDelete        |-> {},
     rapidApiKey        |-> TRUE,
     requests           |-> 0,
     response           |-> ""]

\* The requests the live-score handler serves.
LiveInvocations == {"l"}

\* The live-score handler's locals before it starts; i is the position of
\* the loop in liveFixtures.
InitialLiveLocal ==
    [now          |-> 0,
     liveFixtures |-> <<>>,
     i            |-> 0,
     existingData |-> {},
     rapidApiKey  |-> TRUE,
     requests     |-> 0,
     response     |-> ""]

CronIdle ==
    /\ clock = 0
    /\ footballScores = {}
    /\ forecastHistory = {}
    /\ apiCache = {}
    /\ pc = [p \in Invocations \cup LiveInvocations |-> "idle"]
    /\ local = [p \in Invocations \cup LiveInvocations |->
                   IF p \in Invocations THEN InitialLocal ELSE InitialLiveLocal]

\* GET, up to the cache check: now is read, the marker row is looked up, and
\* the handler answers at once when the last fetch is recent.
BaseStart(p) ==
    /\ pc[p] = "idle"
    /\ LET cacheEntry == findCacheEntry(apiCache)
       IN  \/ /\ fetchedRecently(cacheEntry, clock)
              /\ pc' = [pc EXCEPT ![p] = "done"]
              /\ local' = [local EXCEPT ![p] =
                     [InitialLocal EXCEPT !.now = clock,
                                          !.cacheEntry = cacheEntry,
                                          !.response = "skipped"]]
           \/ /\ ~fetchedRecently(cacheEntry, clock)
              /\ pc' = [pc EXCEPT ![p] = "fetch"]
              /\ local' = [local EXCEPT ![p] =
                     [InitialLocal EXCEPT !.now = clock,
                                          !.cacheEntry = cacheEntry]]
    /\ UNCHANGED <<clock, dbVars, dateVars, asmVars, evalVars, pageVars>>

\* The requests fetchFootballScores issues against an upstream that answers
\* each in one page: one per date for the fixtures and, unless no fixture
\* of the leagues was found, one per date for the odds.
requestsIssued(leagueIds, rangeInfo, catalogue) ==
    LET fixturesByDate == flatten([i \in DOMAIN rangeInfo.dates |->
                                      fixturesOnDate(catalogue, rangeInfo.dates[i])])
    IN  IF Len(filterByLeague(fixturesByDate, leagueIds)) = 0
        THEN Len(rangeInfo.dates)
        ELSE 2 * Len(rangeInfo.dates)

\* Mutant of keyMissing: the credential is not looked at.
keyMissing_Unchecked(rapidApiKey) == FALSE

\* if (!process.env.RAPIDAPI_KEY) throw new Error("RAPIDAPI_KEY missing")
keyMissing(rapidApiKey) == ~rapidApiKey

\* GET, the fetch: getDateRange() at the current time, then
\* fetchFootballScores against what the upstream holds.  fetchFootballScores
\* throws when the credential is missing, before any request, and when a
\* request for the first page of a date is rejected; the catch block then
\* answers with status 500.
BaseFetch(p, catalogues, oddsCatalogues) ==
    /\ pc[p] = "fetch"
    /\ LET dateRangeNow == getDateRange(hoursOf(clock))
       IN  \E rapidApiKey \in BOOLEAN :
               IF keyMissing(rapidApiKey)
               THEN /\ local' = [local EXCEPT ![p].rapidApiKey = rapidApiKey,
                                              ![p].response = "error500"]
                    /\ pc' = [pc EXCEPT ![p] = "done"]
               ELSE \/ \E catalogue \in catalogues, oddsCatalogue \in oddsCatalogues :
                          /\ local' = [local EXCEPT
                                 ![p].rapidApiKey = rapidApiKey,
                                 ![p].requests =
                                     requestsIssued(LEAGUE_IDS, dateRangeNow, catalogue),
                                 ![p].fetchedScores =
                                     fetchFootballScores(LEAGUE_IDS, dateRangeNow,
                                                         catalogue, oddsCatalogue)]
                          /\ pc' = [pc EXCEPT ![p] = "tx"]
                    \/ /\ local' = [local EXCEPT
                              ![p].rapidApiKey = rapidApiKey,
                              ![p].requests = Len(dateRangeNow.dates),
                              ![p].response = "error500"]
                       /\ pc' = [pc EXCEPT ![p] = "done"]
    /\ UNCHANGED <<clock, dbVars, dateVars, asmVars, evalVars, pageVars>>

\* GET, the transaction when it commits: the upsert loop with its history
\* writes, the deletion of the rows that left the batch, the marker.
BaseCommit(p) ==
    /\ pc[p] = "tx"
    /\ ~markerConflict(apiCache, local[p].cacheEntry)
    /\ LET existingScoresMap  == existingScoresMapOf(footballScores)
           existingFixtureIds == DOMAIN existingScoresMap
           after       == processScores(local[p].fetchedScores, existingScoresMap,
                                        local[p].now, footballScores, forecastHistory)
           idsToDelete == idsToDeleteOf(existingFixtureIds,
                              processedFixtureIdsOf(local[p].fetchedScores))
       IN  /\ footballScores' =
                  IF idsToDelete # {}
                  THEN deleteScores(after.footballScores, idsToDelete)
                  ELSE after.footballScores
           /\ forecastHistory' = after.forecastHistory
           /\ apiCache' = updateApiCache(apiCache, local[p].cacheEntry, local[p].now)
           /\ local' = [local EXCEPT ![p].existingFixtureIds = existingFixtureIds,
                                     ![p].idsToDelete = idsToDelete,
                                     ![p].response = "ok"]
    /\ pc' = [pc EXCEPT ![p] = "done"]
    /\ UNCHANGED <<clock, dateVars, asmVars, evalVars, pageVars>>

\* The tables as the transaction sees them when a statement throws after the
\* first upsert of the loop (or at once, when nothing was fetched).
txPartial(p) ==
    IF local[p].fetchedScores = <<>>
    THEN <<footballScores, forecastHistory, apiCache>>
    ELSE <<upsertScore(footballScores, Head(local[p].fetchedScores), local[p].now),
           forecastHistory, apiCache>>

\* Mutant of rollback: what the transaction had written stays.
rollback_KeepWrites(before, inTx) == inTx

\* db.transaction(async (tx) => ..) when the callback throws: every
\* statement ran on tx, so the tables are as before the transaction.
rollback(before, inTx) == before

\* GET, the transaction when a statement fails: everything is rolled back and
\* the catch block answers with status 500.
BaseAbort(p) ==
    /\ pc[p] = "tx"
    /\ LET tables == rollback(dbVars, txPartial(p))
       IN  /\ footballScores' = tables[1]
           /\ forecastHistory' = tables[2]
           /\ apiCache' = tables[3]
    /\ local' = [local EXCEPT ![p].response = "error500"]
    /\ pc' = [pc EXCEPT ![p] = "done"]
    /\ UNCHANGED <<clock, dateVars, asmVars, evalVars, pageVars>>

\* The response is sent; the invocation is over.
BaseReturn(p) ==
    /\ pc[p] = "done"
    /\ pc' = [pc EXCEPT ![p] = "returned"]
    /\ local' = [local EXCEPT ![p] = InitialLocal]
    /\ UNCHANGED <<clock, dbVars, dateVars, asmVars, evalVars, pageVars>>

(***************************************************************************)
(* The live-score handler (update-live-scores): no transaction, every      *)
(* statement is committed on its own, so the statements of other requests  *)
(* may fall between them.                                                  *)
(***************************************************************************)

\* The loop moves on to the next live fixture, or the handler answers.
liveAdvance(l) ==
    IF l.i < Len(l.liveFixtures)
    THEN [l EXCEPT !.i = l.i + 1, !.existingData = {}]
    ELSE [l EXCEPT !.response = "ok"]

liveAdvancePc(l) == IF l.i < Len(l.liveFixtures) THEN "find" ELSE "done"

\* GET, up to the loop: now is read and fetchLiveFixtures answers; with no
\* live fixture the handler answers at once.  fetchLiveFixtures throws when
\* the credential is missing, before any request, and the catch block then
\* answers with status 500; a request that fails gives the empty list.
LiveStart(p, liveCatalogues) ==
    /\ pc[p] = "idle"
    /\ \E rapidApiKey \in BOOLEAN :
           IF keyMissing(rapidApiKey)
           THEN /\ pc' = [pc EXCEPT ![p] = "done"]
                /\ local' = [local EXCEPT ![p] =
                       [InitialLiveLocal EXCEPT !.now = clock,
                                                !.rapidApiKey = rapidApiKey,
                                                !.response = "error500"]]
           ELSE \E liveFixtures \in liveCatalogues :
                    IF Len(liveFixtures) = 0
                    THEN /\ pc' = [pc EXCEPT ![p] = "done"]
                         /\ local' = [local EXCEPT ![p] =
                                [InitialLiveLocal EXCEPT !.now = clock,
                                                         !.requests = 1,
                                                         !.response = "nolive"]]
                    ELSE /\ pc' = [pc EXCEPT ![p] = "find"]
                         /\ local' = [local EXCEPT ![p] =
                                [InitialLiveLocal EXCEPT !.now = clock,
                                                         !.requests = 1,
                                                         !.liveFixtures = liveFixtures,
                                                         !.i = 1]]
    /\ UNCHANGED <<clock, dbVars, dateVars, asmVars, evalVars, pageVars>>

\* db.query.footballScores.findFirst({ where: eq(fixtureId) }): a fixture
\* that is not in the cache table is skipped.
LiveFind(p) ==
    /\ pc[p] = "find"
    /\ LET fixtureId    == local[p].liveFixtures[local[p].i].fixture.id
           existingData == rowsOf(footballScores, fixtureId)
       IN  IF existingData = {}
           THEN /\ pc' = [pc EXCEPT ![p] = liveAdvancePc(local[p])]
                /\ local' = [local EXCEPT ![p] = liveAdvance(local[p])]
           ELSE /\ pc' = [pc EXCEPT ![p] = "update"]
                /\ local' = [local EXCEPT ![p].existingData = existingData]
    /\ UNCHANGED <<clock, dbVars, dateVars, asmVars, evalVars, pageVars>>

\* The history row the live handler is to write for the fixture at hand,
\* if any: the fixture just finished, belonged to a SatMon section, its
\* stored row number has a forecast and both goals are numbers.
liveHistoryRow(liveFixture, existingData) ==
    LET currentStatus    == liveFixture.fixture.status
        currentScore     == liveFixture.goals
        fixtureSectionId == getDateRange(existingData.startTime).sectionId
        forecast         == getForecast(existingData.rowNumber)
    IN  IF /\ justFinished(currentStatus, existingData.status.short)
           /\ endsWithSatMon(fixtureSectionId)
           /\ forecast # NoForecast
           /\ isNumber(currentScore.home)
           /\ isNumber(currentScore.away)
        THEN {[fixtureId     |-> liveFixture.fixture.id,
               rowNumber     |-> existingData.rowNumber,
               weekSectionId |-> fixtureSectionId,
               forecast      |-> forecast,
               isCorrect     |-> isForecastCorrect(currentScore, forecast),
               actualOutcome |-> determineActualOutcome(currentScore)]}
        ELSE {}

\* Mutant of updateLiveScore: a live fixture without a row gets one.
updateLiveScore_Upsert(table, liveFixture, now) ==
    IF rowsOf(table, liveFixture.fixture.id) = {}
    THEN table \cup {[fixtureId   |-> liveFixture.fixture.id,
                      rowNumber   |-> 0,
                      day         |-> formatDay(liveFixture.fixture.date),
                      startTime   |-> parseISO(liveFixture.fixture.date),
                      status      |-> liveFixture.fixture.status,
                      home        |-> liveFixture.teams.home,
                      away        |-> liveFixture.teams.away,
                      score       |-> liveFixture.goals,
                      league      |-> liveFixture.league,
                      odds        |-> [home |-> "", draw |-> "", away |-> ""],
                      lastUpdated |-> now]}
    ELSE {IF r.fixtureId = liveFixture.fixture.id
          THEN [r EXCEPT !.status = liveFixture.fixture.status,
                         !.score = liveFixture.goals,
                         !.lastUpdated = now]
          ELSE r : r \in table}

\* db.update(footballScores).set({ status, score, lastUpdated }).where(..)
updateLiveScore(table, liveFixture, now) ==
    {IF r.fixtureId = liveFixture.fixture.id
     THEN [r EXCEPT !.status = liveFixture.fixture.status,
                    !.score = liveFixture.goals,
                    !.lastUpdated = now]
     ELSE r : r \in table}

\* The update of the cached row, and the decision on the history write.
LiveUpdate(p) ==
    /\ pc[p] = "update"
    /\ LET liveFixture == local[p].liveFixtures[local[p].i]
           existing    == CHOOSE r \in local[p].existingData : TRUE
       IN  /\ footballScores' = updateLiveScore(footballScores, liveFixture, local[p].now)
           /\ IF liveHistoryRow(liveFixture, existing) # {}
              THEN /\ pc' = [pc EXCEPT ![p] = "history"]
                   /\ UNCHANGED local
              ELSE /\ pc' = [pc EXCEPT ![p] = liveAdvancePc(local[p])]
                   /\ local' = [local EXCEPT ![p] = liveAdvance(local[p])]
    /\ UNCHANGED <<clock, forecastHistory, apiCache, dateVars, asmVars, evalVars, pageVars>>

\* db.insert(forecastHistory).values(..).onConflictDoUpdate(..)
LiveHistory(p) ==
    /\ pc[p] = "history"
    /\ LET liveFixture == local[p].liveFixtures[local[p].i]
           existing    == CHOOSE r \in local[p].existingData : TRUE
       IN  forecastHistory' =
               upsertHistory(forecastHistory,
                   CHOOSE h \in liveHistoryRow(liveFixture, existing) : TRUE)
    /\ pc' = [pc EXCEPT ![p] = liveAdvancePc(local[p])]
    /\ local' = [local EXCEPT ![p] = liveAdvance(local[p])]
    /\ UNCHANGED <<clock, footballScores, apiCache, dateVars, asmVars, evalVars, pageVars>>

\* A statement of the loop throws: the catch block answers with status 500
\* and what was written stays.
LiveFail(p) ==
    /\ pc[p] \in {"find", "update", "history"}
    /\ pc' = [pc EXCEPT ![p] = "done"]
    /\ local' = [local EXCEPT ![p].response = "error500"]
    /\ UNCHANGED <<clock, dbVars, dateVars, asmVars, evalVars, pageVars>>

\* The response is sent; the invocation is over.
LiveReturn(p) ==
    /\ pc[p] = "done"
    /\ pc' = [pc EXCEPT ![p] = "returned"]
    /\ local' = [local EXCEPT ![p] = InitialLiveLocal]
    /\ UNCHANGED <<clock, dbVars, dateVars, asmVars, evalVars, pageVars>>

(***************************************************************************)
(* fetchAllPages, and fetchFootballScores on top of it.  The upstream is   *)
(* what it answers to the request of each page: kind is "ok" (a body with  *)
(* a response list), "noResponse" (a body without one), "non2xx",          *)
(* "unparsable" (the body is not JSON) or "rejected" (fetch itself         *)
(* rejects); total is paging.total of the first page, Null when the body   *)
(* reports none.                                                           *)
(***************************************************************************)

\* pageData.response, when the body has one.
responseOf(pageRes) == IF pageRes.kind = "ok" THEN pageRes.response ELSE <<>>

\* Mutant of totalOf: the paging total is not read.
totalOf_AlwaysOne(upstream) == 1

\* totalPages = initialData.paging?.total ?? 1
totalOf(upstream) == IF upstream.total = Null THEN 1 ELSE upstream.total

\* Mutant of pagesLoop: a page that fails ends the loop.
RECURSIVE pagesLoop_AbortOnFailure(_, _, _, _, _)
pagesLoop_AbortOnFailure(pages, currentPage, totalPages, allResponses, requests) ==
    IF currentPage > totalPages
    THEN [requests |-> requests, allResponses |-> allResponses, threw |-> FALSE]
    ELSE IF pages[currentPage].kind \in {"ok", "noResponse"}
         THEN pagesLoop_AbortOnFailure(pages, currentPage + 1, totalPages,
                  allResponses \o responseOf(pages[currentPage]),
                  Append(requests, currentPage))
         ELSE [requests |-> Append(requests, currentPage),
               allResponses |-> allResponses, threw |-> FALSE]

\* for (currentPage = 2; currentPage <= totalPages; currentPage++): a page
\* that is not ok, or whose body does not parse, is passed over; a rejected
\* request throws into the outer catch, which ends the loop and lets the
\* function return what it has.
RECURSIVE pagesLoop(_, _, _, _, _)
pagesLoop(pages, currentPage, totalPages, allResponses, requests) ==
    IF currentPage > totalPages
    THEN [requests |-> requests, allResponses |-> allResponses, threw |-> FALSE]
    ELSE LET pageRes == pages[currentPage]
         IN  IF pageRes.kind = "rejected"
             THEN [requests |-> Append(requests, currentPage),
                   allResponses |-> allResponses, threw |-> FALSE]
             ELSE IF pageRes.kind \in {"non2xx", "unparsable"}
             THEN pagesLoop(pages, currentPage + 1, totalPages, allResponses,
                            Append(requests, currentPage))
             ELSE pagesLoop(pages, currentPage + 1, totalPages,
                            allResponses \o responseOf(pageRes),
                            Append(requests, currentPage))

\* fetchAllPages(initialUrl, options, entityName): the pages requested, the
\* list returned, and whether the call threw instead of returning.  The
\* first request is awaited outside the try block.
fetchAllPages(upstream) ==
    LET initialRes == upstream.pages[1]
    IN  IF initialRes.kind = "rejected"
        THEN [requests |-> <<1>>, allResponses |-> <<>>, threw |-> TRUE]
        ELSE IF initialRes.kind \in {"non2xx", "unparsable"}
        THEN [requests |-> <<1>>, allResponses |-> <<>>, threw |-> FALSE]
        ELSE pagesLoop(upstream.pages, 2, totalOf(upstream),
                       responseOf(initialRes), <<1>>)

\* fetchFootballScores(leagueIds, dateRangeInfo) for a single date, the
\* credential set: Promise.all rejects when a fetchAllPages call throws, and
\* nothing catches it.
fetchFootballScoresPaged(leagueIds, fixturesUpstream, oddsUpstream) ==
    LET fixturesByDate == fetchAllPages(fixturesUpstream)
        oddsByDate     == fetchAllPages(oddsUpstream)
    IN  IF fixturesByDate.threw
        THEN [threw |-> TRUE, scores |-> <<>>, oddsRequested |-> FALSE]
        ELSE IF Len(filterByLeague(fixturesByDate.allResponses, leagueIds)) = 0
        THEN [threw |-> FALSE, scores |-> <<>>, oddsRequested |-> FALSE]
        ELSE IF oddsByDate.threw
        THEN [threw |-> TRUE, scores |-> <<>>, oddsRequested |-> TRUE]
        ELSE [threw |-> FALSE,
              scores |-> assemble(leagueIds, fixturesByDate.allResponses,
                                  oddsByDate.allResponses),
              oddsRequested |-> TRUE]

(***************************************************************************)
(* Specification SpecDate: getDateRange applied to reference instants      *)
(* around two turns of the year and the two daylight-saving changes.       *)
(***************************************************************************)

\* Hours of each window of reference instants.
SpanHours == 264

\* Friday 00:00 UTC of 2022-12-30, 2024-12-27, 2025-03-28 and 2025-10-24.
DateBases == {464544, 482016, 484200, 489240}

DateInputs == {b + k : b \in DateBases, k \in 0..SpanHours}

DateInit ==
    /\ referenceDateInput \in DateInputs
    /\ dateRangeInfo = NoResult
    /\ AsmIdle
    /\ EvalIdle
    /\ CronIdle
    /\ PageIdle

CallGetDateRange ==
    /\ dateRangeInfo = NoResult
    /\ dateRangeInfo' = getDateRange(referenceDateInput)
    /\ UNCHANGED <<referenceDateInput, asmVars, evalVars, cronVars, pageVars>>

DateNext == CallGetDateRange

SpecDate == DateInit /\ [][DateNext]_vars

(***************************************************************************)
(* Claims about getDateRange (checked under SpecDate).                     *)
(***************************************************************************)

\* The reference instant on the wall clock of Sofia.
RefLocal == toZonedTime(referenceDateInput)

\* Hours elapsed on the Sofia wall clock since the last Saturday 00:00.
HoursSinceSaturday == ((getDay(RefLocal) + 1) % 7) * 24 + getHours(RefLocal)

\* The instant lies in [Saturday 10:00, Tuesday 10:00) local time.
InSatToTue == HoursSinceSaturday >= 10 /\ HoursSinceSaturday < 3 * 24 + 10

\* The most recent day of the given weekday whose 10:00 local is at or before
\* the reference instant.
MostRecent(weekday) ==
    CHOOSE d \in (DayOf(RefLocal) - 7)..DayOf(RefLocal) :
        /\ (d + 4) % 7 = weekday
        /\ 24 * d + 10 <= RefLocal
        /\ \A e \in (DayOf(RefLocal) - 7)..DayOf(RefLocal) :
               ((e + 4) % 7 = weekday /\ 24 * e + 10 <= RefLocal) => e <= d

\* The anchor day of the window the reference instant lies in.
AnchorDay == IF InSatToTue THEN MostRecent(6) ELSE MostRecent(2)

\* C1: the sectionId ends in -SatMon exactly when the local weekday and hour
\* of the reference instant lie in [Saturday 10:00, Tuesday 10:00), and in
\* -TueFri for every other instant.
C1_SectionTypeByWindow ==
    dateRangeInfo # NoResult =>
        /\ dateRangeInfo.sectionId[3] \in {"SatMon", "TueFri"}
        /\ endsWithSatMon(dateRangeInfo.sectionId) <=> InSatToTue
        /\ dateRangeInfo.sectionId[3] = "TueFri" <=> ~InSatToTue

\* C1 witness: a Tuesday before 10:00 local resolved to a SatMon section.
C1_Witness ==
    /\ dateRangeInfo # NoResult
    /\ getDay(RefLocal) = 2 /\ getHours(RefLocal) = 9
    /\ endsWithSatMon(dateRangeInfo.sectionId)

\* C2: the year and the week number of the sectionId are the year and the ISO
\* week of the anchor day of the window (the Saturday of a SatMon window, the
\* Tuesday of a TueFri window), not those of the reference instant.
C2_IdOfAnchorDay ==
    dateRangeInfo # NoResult =>
        /\ dateRangeInfo.sectionId[1] = getYear(24 * AnchorDay)
        /\ dateRangeInfo.sectionId[2] = getISOWeek(24 * AnchorDay)

\* C3: dates has length 3 for a SatMon section and 4 for a TueFri section,
\* and its last entry is the calendar date of endDate.
C3_DatesLength ==
    dateRangeInfo # NoResult =>
        /\ Len(dateRangeInfo.dates) =
               (IF endsWithSatMon(dateRangeInfo.sectionId) THEN 3 ELSE 4)
        /\ dateRangeInfo.dates[Len(dateRangeInfo.dates)] =
               formatDate(dateRangeInfo.endDate)

\* C3 witness: a TueFri section with its four dates.
C3_Witness ==
    /\ dateRangeInfo # NoResult
    /\ ~endsWithSatMon(dateRangeInfo.sectionId)
    /\ Len(dateRangeInfo.dates) = 4
    /\ getDay(RefLocal) = 6

\* C4: the dates are consecutive local calendar days starting at the anchor:
\* the most recent Saturday whose 10:00 is at or before the instant (SatMon:
\* Sat, Sun, Mon), the most recent Tuesday whose 10:00 is at or before the
\* instant (TueFri: Tue, Wed, Thu, Fri).
C4_DatesFromAnchor ==
    dateRangeInfo # NoResult =>
        IF endsWithSatMon(dateRangeInfo.sectionId)
        THEN dateRangeInfo.dates =
                 [i \in 1..3 |-> formatDate(24 * (MostRecent(6) + i - 1))]
        ELSE dateRangeInfo.dates =
                 [i \in 1..4 |-> formatDate(24 * (MostRecent(2) + i - 1))]

\* C4 witness: a Saturday before 10:00 local, whose dates start on the Tuesday
\* four days earlier.
C4_Witness ==
    /\ dateRangeInfo # NoResult
    /\ getDay(RefLocal) = 6 /\ getHours(RefLocal) < 10
    /\ dateRangeInfo.dates[1] = formatDate(addDays(RefLocal, -4))
    /\ Len(dateRangeInfo.dates) = 4

(***************************************************************************)
(* Specification SpecAsm: the assembler applied to every list of at most   *)
(* MaxFixtures fixtures and at most MaxOdds odds entries drawn from a few  *)
(* upstream records.                                                       *)
(***************************************************************************)

MaxFixtures == 3

MaxOdds == 2

\* An upstream fixture record.
ApiFixture(id, date, leagueId, short, goalsHome, goalsAway) ==
    [fixture |-> [id |-> id, date |-> date, status |-> [short |-> short]],
     league  |-> [id |-> leagueId],
     teams   |-> [home |-> 10 * id + 1, away |-> 10 * id + 2],
     goals   |-> [home |-> goalsHome, away |-> goalsAway]]

\* Two fixtures with the same kickoff, an earlier one, and one of a league
\* that is not tracked.
SampleFixtures ==
    {ApiFixture(101, <<2025, 4, 12, 14>>, 39, "NS", Null, Null),
     ApiFixture(102, <<2025, 4, 12, 14>>, 140, "FT", 2, 2),
     ApiFixture(103, <<2025, 4, 12, 11>>, 39, "FT", 1, 0),
     ApiFixture(104, <<2025, 4, 11, 19>>, 999, "NS", Null, Null)}

\* A bookmaker record with one bet.
Bookmaker(id, betId, values) ==
    [id |-> id, bets |-> <<[id |-> betId, values |-> values]>>]

HomeDrawAway ==
    <<[value |-> "Home", odd |-> "1.50"],
      [value |-> "Draw", odd |-> "3.40"],
      [value |-> "Away", odd |-> "6.00"]>>

HomeDraw ==
    <<[value |-> "Home", odd |-> "2.10"],
      [value |-> "Draw", odd |-> "3.00"]>>

\* An upstream odds record.
OddsFixture(id, bookmakers) ==
    [fixture |-> [id |-> id], bookmakers |-> bookmakers]

\* Odds entries: a full triple, a triple short of Away, another bookmaker, the
\* bookmaker behind another one, another bet, and no bookmaker at all.
SampleOdds ==
    {OddsFixture(101, <<Bookmaker(TARGET_BOOKMAKER_ID, MATCH_WINNER_BET_ID, HomeDrawAway)>>),
     OddsFixture(101, <<Bookmaker(TARGET_BOOKMAKER_ID, MATCH_WINNER_BET_ID, HomeDraw)>>),
     OddsFixture(102, <<Bookmaker(8, MATCH_WINNER_BET_ID, HomeDrawAway)>>),
     OddsFixture(102, <<Bookmaker(8, MATCH_WINNER_BET_ID, HomeDraw),
                        Bookmaker(TARGET_BOOKMAKER_ID, MATCH_WINNER_BET_ID, HomeDrawAway)>>),
     OddsFixture(103, <<Bookmaker(TARGET_BOOKMAKER_ID, 2, HomeDrawAway)>>),
     OddsFixture(103, <<Bookmaker(TARGET_BOOKMAKER_ID, MATCH_WINNER_BET_ID, HomeDrawAway)>>),
     OddsFixture(104, <<Bookmaker(TARGET_BOOKMAKER_ID, MATCH_WINNER_BET_ID, HomeDrawAway)>>),
     OddsFixture(103, <<>>)}

\* The lists of at most n elements of S.
SeqsUpTo(S, n) == UNION {[1..k -> S] : k \in 0..n}

DateIdle ==
    /\ referenceDateInput = 0
    /\ dateRangeInfo = NoResult

AsmInit ==
    /\ allApiFixtures \in SeqsUpTo(SampleFixtures, MaxFixtures)
    /\ allOddsFixtures \in SeqsUpTo(SampleOdds, MaxOdds)
    /\ combinedScores = <<>>
    /\ asmPhase = "input"
    /\ DateIdle
    /\ EvalIdle
    /\ CronIdle
    /\ PageIdle

CallAssemble ==
    /\ asmPhase = "input"
    /\ combinedScores' = assemble(LEAGUE_IDS, allApiFixtures, allOddsFixtures)
    /\ asmPhase' = "returned"
    /\ UNCHANGED <<allApiFixtures, allOddsFixtures, dateVars, evalVars, cronVars, pageVars>>

AsmNext == CallAssemble

SpecAsm == AsmInit /\ [][AsmNext]_vars

(***************************************************************************)
(* Claims about the assembler (checked under SpecAsm).                     *)
(***************************************************************************)

\* The odds data hold, for the fixture id, the Home, Draw and Away odds of the
\* designated bookmaker and bet market.
CompleteTripleFor(fixtureId) ==
    \E o \in Range(allOddsFixtures) :
        /\ o.fixture.id = fixtureId
        /\ \E b \in Range(o.bookmakers) :
               /\ b.id = 6
               /\ \E bet \in Range(b.bets) :
                      /\ bet.id = 1
                      /\ \A name \in {"Home", "Draw", "Away"} :
                             \E v \in Range(bet.values) :
                                 v.value = name /\ v.odd # ""

\* C5: a fixture of a tracked league is in the output iff the odds data hold
\* its complete Home/Draw/Away triple; no row of the output lacks an odds
\* component, and every row is a fixture of a tracked league.
C5_OnlyCompleteOdds ==
    asmPhase = "returned" =>
        /\ \A f \in Range(allApiFixtures) :
               f.league.id \in LEAGUE_IDS =>
                   ((\E r \in Range(combinedScores) : r.fixtureId = f.fixture.id)
                        <=> CompleteTripleFor(f.fixture.id))
        /\ \A r \in Range(combinedScores) :
               /\ r.odds.home # "" /\ r.odds.draw # "" /\ r.odds.away # ""
               /\ CompleteTripleFor(r.fixtureId)
               /\ \E f \in Range(allApiFixtures) :
                      f.fixture.id = r.fixtureId /\ f.league.id \in LEAGUE_IDS

\* C5 witness: two fixtures of tracked leagues, one with a complete triple and
\* one with a triple short of Away: one row, row number 1.
C5_Witness ==
    /\ asmPhase = "returned"
    /\ Len(allApiFixtures) = 2
    /\ allApiFixtures[1].fixture.id = 101 /\ allApiFixtures[2].fixture.id = 103
    /\ ~CompleteTripleFor(101) /\ CompleteTripleFor(103)
    /\ \E o \in Range(allOddsFixtures) : o.fixture.id = 101
    /\ Len(combinedScores) = 1
    /\ combinedScores[1].fixtureId = 103 /\ combinedScores[1].rowNumber = 1

\* C6: the output is sorted ascending by kickoff instant and the row at
\* position i carries row number i, whatever the order of the input.
C6_SortedAndNumbered ==
    asmPhase = "returned" =>
        /\ \A i \in DOMAIN combinedScores : combinedScores[i].rowNumber = i
        /\ \A i, j \in DOMAIN combinedScores :
               i < j => parseISO(combinedScores[i].startTime)
                            <= parseISO(combinedScores[j].startTime)
        /\ {combinedScores[i].rowNumber : i \in DOMAIN combinedScores}
               = 1..Len(combinedScores)

\* C6 witness: the later fixture comes first in the input and second in a
\* three-row output.
C6_Witness ==
    /\ asmPhase = "returned"
    /\ Len(allApiFixtures) = 3
    /\ allApiFixtures[1].fixture.id = 102 /\ allApiFixtures[2].fixture.id = 103
    /\ Len(combinedScores) = 2
    /\ combinedScores[1].fixtureId = 103 /\ combinedScores[2].fixtureId = 102

(***************************************************************************)
(* Specification SpecEval: the evaluator applied to every score with       *)
(* components null or 0..MaxGoals and to every label, a label of no case   *)
(* included.                                                               *)
(***************************************************************************)

MaxGoals == 4

Labels == {"1/X", "1/2", "X/2"}

EvalInit ==
    /\ evalScore \in [home : {Null} \cup 0..MaxGoals,
                      away : {Null} \cup 0..MaxGoals]
    /\ evalForecast \in Labels \cup {"2/X"}
    /\ evalIsCorrect = FALSE
    /\ evalOutcome = NullOutcome
    /\ evalPhase = "input"
    /\ DateIdle
    /\ AsmIdle
    /\ CronIdle
    /\ PageIdle

CallEvaluate ==
    /\ evalPhase = "input"
    /\ evalIsCorrect' = isForecastCorrect(evalScore, evalForecast)
    /\ evalOutcome' = determineActualOutcome(evalScore)
    /\ evalPhase' = "returned"
    /\ UNCHANGED <<evalScore, evalForecast, dateVars, asmVars, cronVars, pageVars>>

EvalNext == CallEvaluate

SpecEval == EvalInit /\ [][EvalNext]_vars

(***************************************************************************)
(* Claims about the evaluator (checked under SpecEval).                    *)
(***************************************************************************)

\* The two outcomes a label names.
OutcomesNamed(label) ==
    CASE label = "1/X" -> {"1", "X"}
      [] label = "1/2" -> {"1", "2"}
      [] label = "X/2" -> {"X", "2"}
      [] OTHER -> {}

BothNumeric == evalScore.home \in 0..MaxGoals /\ evalScore.away \in 0..MaxGoals

\* C7: for numeric scores, "1/X" is correct iff home >= away, "1/2" iff
\* home # away, "X/2" iff home <= away; that is, iff the actual outcome is one
\* of the two outcomes the label names.
C7_CorrectIffNamedOutcome ==
    (evalPhase = "returned" /\ BothNumeric /\ evalForecast \in Labels) =>
        /\ evalForecast = "1/X" => (evalIsCorrect <=> evalScore.home >= evalScore.away)
        /\ evalForecast = "1/2" => (evalIsCorrect <=> evalScore.home # evalScore.away)
        /\ evalForecast = "X/2" => (evalIsCorrect <=> evalScore.home <= evalScore.away)
        /\ evalIsCorrect <=> evalOutcome \in OutcomesNamed(evalForecast)

\* C7 witness: label "1/2" and score 2-2 give outcome "X" and false.
C7_Witness ==
    /\ evalPhase = "returned"
    /\ evalForecast = "1/2"
    /\ evalScore = [home |-> 2, away |-> 2]
    /\ evalOutcome = "X"
    /\ evalIsCorrect = FALSE

\* C8: determineActualOutcome returns null when the home or the away score is
\* not a number, and otherwise "1" for home > away, "2" for home < away and
\* "X" for equal scores.
C8_OutcomeOfScore ==
    evalPhase = "returned" =>
        IF BothNumeric
        THEN /\ evalOutcome = "1" <=> evalScore.home > evalScore.away
             /\ evalOutcome = "2" <=> evalScore.home < evalScore.away
             /\ evalOutcome = "X" <=> evalScore.home = evalScore.away
             /\ evalOutcome \in {"1", "2", "X"}
        ELSE evalOutcome = NullOutcome

\* C8 witness: a numeric home score and no away score give null.
C8_Witness ==
    /\ evalPhase = "returned"
    /\ evalScore.home = 1 /\ evalScore.away = Null
    /\ evalOutcome = NullOutcome

(***************************************************************************)
(* Specification Spec: invocations of the base-data handler, interleaved,  *)
(* on a clock that runs across the Saturday 10:00 cutover in Sofia, against *)
(* an upstream that holds any part of three fixtures.                      *)
(***************************************************************************)

\* 2025-04-12T06:45Z, Saturday 09:45 in Sofia, in minutes since the epoch.
StartClock == 29074005

\* Minutes between two readings of the clock.
TickMinutes == 15

\* Number of times the clock advances.
MaxTicks == 2

\* What the upstream may hold of each fixture. 101 and 102 kick off on
\* Saturday (102 first) and are not started or finished, 102 also finished
\* with no goals reported; 103 kicks off on Friday.
UpstreamFixtures ==
    <<{ApiFixture(101, <<2025, 4, 12, 14>>, 39, "NS", Null, Null),
       ApiFixture(101, <<2025, 4, 12, 14>>, 39, "FT", 2, 1)},
      {ApiFixture(102, <<2025, 4, 12, 11>>, 140, "NS", Null, Null),
       ApiFixture(102, <<2025, 4, 12, 11>>, 140, "FT", 1, 1),
       ApiFixture(102, <<2025, 4, 12, 11>>, 140, "FT", Null, Null)},
      {ApiFixture(103, <<2025, 4, 11, 17>>, 39, "NS", Null, Null),
       ApiFixture(103, <<2025, 4, 11, 17>>, 39, "FT", 0, 2)}>>

\* The catalogues: of each fixture one state, or nothing.
RECURSIVE CataloguesFrom(_)
CataloguesFrom(i) ==
    IF i > Len(UpstreamFixtures) THEN {<<>>}
    ELSE LET rest == CataloguesFrom(i + 1)
         IN  rest \cup {<<f>> \o c : f \in UpstreamFixtures[i], c \in rest}

Catalogues == CataloguesFrom(1)

FullOdds(id) ==
    OddsFixture(id, <<Bookmaker(TARGET_BOOKMAKER_ID, MATCH_WINNER_BET_ID, HomeDrawAway)>>)

\* The odds the upstream may hold: of every fixture, or of all but 101.
OddsCatalogues ==
    {<<FullOdds(101), FullOdds(102), FullOdds(103)>>,
     <<FullOdds(102), FullOdds(103)>>}

\* The marker table before the first request: empty, or with the marker of
\* a pass of an hour ago.
InitialMarkers ==
    {{}, {[key |-> cacheKey, lastFetched |-> StartClock - 60]}}

Init ==
    /\ clock = StartClock
    /\ footballScores = {}
    /\ forecastHistory = {}
    /\ apiCache \in InitialMarkers
    /\ pc = [p \in Invocations \cup LiveInvocations |-> "idle"]
    /\ local = [p \in Invocations \cup LiveInvocations |->
                   IF p \in Invocations THEN InitialLocal ELSE InitialLiveLocal]
    /\ DateIdle
    /\ AsmIdle
    /\ EvalIdle
    /\ PageIdle

\* Time passes.
Tick ==
    /\ clock < StartClock + MaxTicks * TickMinutes
    /\ clock' = clock + TickMinutes
    /\ UNCHANGED <<dbVars, pc, local, dateVars, asmVars, evalVars, pageVars>>

Next ==
    \/ Tick
    \/ \E p \in Invocations : BaseStart(p)
    \/ \E p \in Invocations : BaseFetch(p, Catalogues, OddsCatalogues)
    \/ \E p \in Invocations : BaseCommit(p)
    \/ \E p \in Invocations : BaseAbort(p)
    \/ \E p \in Invocations : BaseReturn(p)

Spec == Init /\ [][Next]_vars

(***************************************************************************)
(* Specification SpecCron: the base-data requests together with a request *)
(* of the live-score handler.                                              *)
(***************************************************************************)

\* What the upstream holds in this specification: 101 alone and not
\* started, or 101 finished together with 102; the odds of both.
CronCatalogues ==
    {c \in Catalogues :
        /\ \E f \in Range(c) : f.fixture.id = 101
        /\ \A f \in Range(c) :
               /\ f.fixture.id \in {101, 102}
               /\ f.fixture.id = 102 => f.fixture.status.short = "NS"
               /\ f.fixture.id = 101 =>
                      (f.fixture.status.short = "FT" <=> Len(c) = 2)}

CronOddsCatalogues == {<<FullOdds(101), FullOdds(102), FullOdds(103)>>}

\* The answers of the live endpoint: nothing, 101 finished with another
\* score than the fixtures endpoint reports, the same after 102.
LiveCatalogues ==
    {<<>>,
     <<ApiFixture(101, <<2025, 4, 12, 14>>, 39, "FT", 0, 1)>>,
     <<ApiFixture(102, <<2025, 4, 12, 11>>, 140, "FT", 1, 1),
       ApiFixture(101, <<2025, 4, 12, 14>>, 39, "FT", 0, 1)>>}

CronNext ==
    \/ Tick
    \/ \E p \in Invocations : BaseStart(p)
    \/ \E p \in Invocations : BaseFetch(p, CronCatalogues, CronOddsCatalogues)
    \/ \E p \in Invocations : BaseCommit(p)
    \/ \E p \in Invocations : BaseAbort(p)
    \/ \E p \in Invocations : BaseReturn(p)
    \/ \E p \in LiveInvocations : LiveStart(p, LiveCatalogues)
    \/ \E p \in LiveInvocations : LiveFind(p)
    \/ \E p \in LiveInvocations : LiveUpdate(p)
    \/ \E p \in LiveInvocations : LiveHistory(p)
    \/ \E p \in LiveInvocations : LiveFail(p)
    \/ \E p \in LiveInvocations : LiveReturn(p)

SpecCron == Init /\ [][CronNext]_vars

(***************************************************************************)
(* Claims about the reconciliation of the cache table (C9, C10).  A pass   *)
(* commits in the step that takes its invocation from "tx" to "done" with  *)
(* the response "ok".                                                      *)
(***************************************************************************)

Commits(p) ==
    /\ pc[p] = "tx"
    /\ pc'[p] = "done"
    /\ local'[p].response = "ok"

fixtureIdsIn(table) == {r.fixtureId : r \in table}

batchIds(p) == processedFixtureIdsOf(local[p].fetchedScores)

\* C9: after a committed base-data pass, every fixture that was in the cache
\* table before the pass and whose fixtureId is absent from the pass's batch
\* is no longer in the table, and no fixture whose fixtureId is in the batch
\* has been deleted.
C9_AbsentFixturesDeleted ==
    [][\A p \in Invocations :
          Commits(p) =>
              /\ \A id \in fixtureIdsIn(footballScores) \ batchIds(p) :
                     id \notin fixtureIdsIn(footballScores')
              /\ \A id \in batchIds(p) :
                     id \in fixtureIdsIn(footballScores')]_vars

\* A committed pass has deleted a fixture that left the batch and kept one
\* that was already there and is still in the batch.
C9_Witness ==
    \E p \in Invocations :
        /\ pc[p] = "done"
        /\ local[p].response = "ok"
        /\ local[p].idsToDelete # {}
        /\ local[p].existingFixtureIds \cap batchIds(p) # {}
        /\ fixtureIdsIn(footballScores) = batchIds(p)

\* C10: after a committed base-data pass, the cache table holds exactly one
\* row per fixtureId of the batch, inserted if new and updated if it existed,
\* and that row's status, score, odds, row number and day label are those of
\* the batch row and its lastUpdated is the instant the pass started.
C10_OneRowPerBatchFixture ==
    [][\A p \in Invocations :
          Commits(p) =>
              \A i \in DOMAIN local[p].fetchedScores :
                  LET currentScore == local[p].fetchedScores[i]
                      rows == rowsOf(footballScores', currentScore.fixtureId)
                  IN  /\ Cardinality(rows) = 1
                      /\ \A r \in rows :
                             /\ r.status = currentScore.status
                             /\ r.score = currentScore.score
                             /\ r.odds = currentScore.odds
                             /\ r.rowNumber = currentScore.rowNumber
                             /\ r.day = currentScore.day
                             /\ r.lastUpdated = local[p].now]_vars

\* A committed pass has updated a row that existed, to other values than it
\* had, and inserted one that did not.
C10_Witness ==
    \E p \in Invocations :
        /\ pc[p] = "done"
        /\ local[p].response = "ok"
        /\ \E i, j \in DOMAIN local[p].fetchedScores :
               /\ local[p].fetchedScores[i].fixtureId \in local[p].existingFixtureIds
               /\ local[p].fetchedScores[i].status.short = "FT"
               /\ local[p].fetchedScores[i].rowNumber = 2
               /\ local[p].fetchedScores[j].fixtureId \notin local[p].existingFixtureIds
               /\ \A s \in {local[p].fetchedScores[i], local[p].fetchedScores[j]} :
                      \E r \in footballScores :
                          /\ r.fixtureId = s.fixtureId
                          /\ r.status = s.status
                          /\ r.rowNumber = s.rowNumber
                          /\ r.lastUpdated = local[p].now
        /\ local[p].now > StartClock

(***************************************************************************)
(* Claims about the forecast history written by a base-data pass (C11).    *)
(***************************************************************************)

historyOf(table, fixtureId) == {h \in table : h.fixtureId = fixtureId}

\* The fetched row is finished and the stored row of its fixture is not.
TurnsFinished(currentScore) ==
    /\ currentScore.status.short = "FT"
    /\ rowsOf(footballScores, currentScore.fixtureId) # {}
    /\ \A r \in rowsOf(footballScores, currentScore.fixtureId) :
           r.status.short # "FT"

kickoffSection(currentScore) ==
    getDateRange(parseISO(currentScore.startTime)).sectionId

Evaluable(currentScore) ==
    /\ getForecast(currentScore.rowNumber) # NoForecast
    /\ isNumber(currentScore.score.home)
    /\ isNumber(currentScore.score.away)

\* The history of the fixture after the step holds one row of its kickoff's
\* section, with the evaluation of the fetched row.
OneHistoryRowWritten(currentScore) ==
    LET written == {h \in forecastHistory' :
                        /\ h.fixtureId = currentScore.fixtureId
                        /\ h.weekSectionId = kickoffSection(currentScore)}
    IN  /\ Cardinality(written) = 1
        /\ \A h \in written :
               /\ h.forecast = getForecast(currentScore.rowNumber)
               /\ h.rowNumber = currentScore.rowNumber
               /\ h.isCorrect = isForecastCorrect(currentScore.score, h.forecast)
               /\ h.actualOutcome = determineActualOutcome(currentScore.score)

NoHistoryRowWritten(currentScore) ==
    historyOf(forecastHistory', currentScore.fixtureId)
        = historyOf(forecastHistory, currentScore.fixtureId)

samePair(h1, h2) ==
    h1.fixtureId = h2.fixtureId /\ h1.weekSectionId = h2.weekSectionId

\* The live handler's history statement is executed in this step.
LiveWrites(p) ==
    /\ pc[p] = "history"
    /\ pc'[p] # "history"
    /\ local'[p].response # "error500"

\* The row of the pair after the step is the one the live handler computed
\* from the live fixture and the stored row it had read.
LiveRowWritten(p) ==
    LET liveFixture == local[p].liveFixtures[local[p].i]
    IN  \A e \in local[p].existingData :
            LET pair == {h \in forecastHistory' :
                            /\ h.fixtureId = liveFixture.fixture.id
                            /\ h.weekSectionId = getDateRange(e.startTime).sectionId}
            IN  /\ Cardinality(pair) = 1
                /\ \A h \in pair :
                       /\ h.rowNumber = e.rowNumber
                       /\ h.forecast = getForecast(e.rowNumber)
                       /\ h.isCorrect = isForecastCorrect(liveFixture.goals, h.forecast)
                       /\ h.actualOutcome = determineActualOutcome(liveFixture.goals)

\* The fetched row is finished, the stored one (if any) is not, and the
\* base-data pass evaluates it.
BaseWrites(currentScore) ==
    /\ currentScore.status.short = "FT"
    /\ \A r \in rowsOf(footballScores, currentScore.fixtureId) : r.status.short # "FT"
    /\ kickoffSection(currentScore)[3] = "SatMon"
    /\ Evaluable(currentScore)

\* C12: after any interleaving of base-data and live-score passes the
\* forecast history holds at most one row per (fixtureId, weekSectionId); a
\* later write for an existing pair overwrites the row's isCorrect,
\* actualOutcome, rowNumber and forecast and adds no second row.
C12_OneHistoryRowPerPair ==
    [][/\ \A h1, h2 \in forecastHistory' : samePair(h1, h2) => h1 = h2
       /\ \A h \in forecastHistory :
              Cardinality({h2 \in forecastHistory' : samePair(h, h2)}) = 1
       /\ \A p \in LiveInvocations : LiveWrites(p) => LiveRowWritten(p)
       /\ \A p \in Invocations :
              Commits(p) =>
                  \A s \in Range(local[p].fetchedScores) :
                      BaseWrites(s) => OneHistoryRowWritten(s)]_vars

\* The live handler read the stored row of 101 (row 1, not finished), a
\* base-data pass then found 101 finished in row 2 and wrote its history,
\* and the live handler's write replaced that row.
C12_Witness ==
    /\ \E q \in Invocations :
           /\ pc[q] = "done"
           /\ local[q].response = "ok"
           /\ \E s \in Range(local[q].fetchedScores) :
                  s.fixtureId = 101 /\ s.status.short = "FT" /\ s.rowNumber = 2
    /\ \E r \in footballScores :
           r.fixtureId = 101 /\ r.rowNumber = 2 /\ r.score = [home |-> 0, away |-> 1]
    /\ \E h \in forecastHistory :
           h.fixtureId = 101 /\ h.rowNumber = 1 /\ h.actualOutcome = "2"
    /\ Cardinality(historyOf(forecastHistory, 101)) = 1

(***************************************************************************)
(* Claims about the transaction of a base-data pass (C13).                 *)
(***************************************************************************)

\* Everything the pass writes is there after the step.
AllEffects(p) ==
    /\ fixtureIdsIn(footballScores') = batchIds(p)
    /\ \A r \in footballScores' : r.lastUpdated = local[p].now
    /\ \A s \in Range(local[p].fetchedScores) :
           /\ \E r \in footballScores' :
                  /\ r.fixtureId = s.fixtureId
                  /\ r.status = s.status
                  /\ r.score = s.score
           /\ BaseWrites(s) => OneHistoryRowWritten(s)
    /\ \E m \in apiCache' : m.key = cacheKey /\ m.lastFetched = local[p].now

\* C13: the upserts, deletions, history writes and marker update of one
\* base-data pass are atomic: a pass that fails leaves the cache table, the
\* forecast history and the marker as they were and answers with status 500;
\* otherwise all its effects are visible together.
C13_AllOrNothing ==
    [][/\ \A p \in Invocations :
              (pc[p] = "tx" /\ pc'[p] = "done") =>
                  \/ AllEffects(p) /\ local'[p].response = "ok"
                  \/ UNCHANGED dbVars /\ local'[p].response = "error500"
       /\ dbVars' # dbVars =>
              \E p \in Invocations : pc[p] = "tx" /\ pc'[p] = "done"]_vars

\* A pass with a fetched fixture has failed and the cache table does not
\* hold that fixture, while a committed pass of the other request has left
\* its rows and the marker.
C13_Witness ==
    \E p, q \in Invocations :
        /\ pc[p] = "done"
        /\ local[p].response = "error500"
        /\ batchIds(p) # {}
        /\ batchIds(p) \cap fixtureIdsIn(footballScores) = {}
        /\ pc[q] = "done"
        /\ local[q].response = "ok"
        /\ fixtureIdsIn(footballScores) = batchIds(q)
        /\ batchIds(q) # {}
        /\ \E m \in apiCache : m.lastFetched = local[q].now

(***************************************************************************)
(* Claims about the cooldown (C14).                                        *)
(***************************************************************************)

\* C14 as stated: no two invocations whose start instants are closer
\* together than the cooldown both fetch and commit a reconciliation
\* transaction.
C14_Original ==
    [][\A p, q \in Invocations :
          (/\ p # q
           /\ Commits(q)
           /\ pc[p] = "done"
           /\ local[p].response = "ok")
          => \/ local[q].now - local[p].now >= CACHE_DURATION_MINUTES
             \/ local[p].now - local[q].now >= CACHE_DURATION_MINUTES]_vars

\* C14 as amended: no invocation fetches or commits a reconciliation
\* transaction if the marker it read at its start recorded a lastFetched
\* later than its start instant minus the cooldown; two invocations that
\* both read the marker before either has committed may both fetch and
\* commit.
C14_NoPassOnRecentMarker ==
    [][\A q \in Invocations :
          (pc'[q] \in {"fetch", "tx"} \/ Commits(q)) =>
              \A e \in local'[q].cacheEntry :
                  e.lastFetched <= local'[q].now - CACHE_DURATION_MINUTES]_vars

\* One request has committed on an old marker and the other, started later
\* within the cooldown, has been turned away.
C14_Witness ==
    \E p, q \in Invocations :
        /\ pc[p] = "done"
        /\ local[p].response = "ok"
        /\ local[p].cacheEntry # {}
        /\ pc[q] = "done"
        /\ local[q].response = "skipped"
        /\ \E e \in local[q].cacheEntry :
               /\ e.lastFetched = local[p].now
               /\ local[q].now - local[p].now < CACHE_DURATION_MINUTES

(***************************************************************************)
(* Claims about the early exit (C15).                                      *)
(***************************************************************************)

\* The request is taken up in this step.
Starts(p) == pc[p] = "idle" /\ pc'[p] # "idle"

markerIsRecent ==
    \E m \in apiCache :
        /\ m.key = cacheKey
        /\ m.lastFetched > clock - CACHE_DURATION_MINUTES

\* C15: an invocation that finds the marker's lastFetched later than its
\* start instant minus the cooldown exits early, with no upstream request
\* and no change to the cache table, the forecast history or the marker; one
\* that finds no marker or an older lastFetched proceeds to fetch.
C15_EarlyExit ==
    [][\A p \in Invocations :
          /\ Starts(p) =>
                 IF markerIsRecent
                 THEN /\ pc'[p] = "done"
                      /\ local'[p].response = "skipped"
                      /\ local'[p].requests = 0
                      /\ UNCHANGED dbVars
                 ELSE /\ pc'[p] = "fetch"
                      /\ local'[p].response = ""
          /\ (local[p].response = "skipped" /\ pc'[p] # pc[p]) =>
                 /\ pc'[p] = "returned"
                 /\ UNCHANGED dbVars]_vars

\* A request that found a marker younger than the cooldown has been turned
\* away, and the tables are still as the pass that wrote the marker left
\* them.
C15_Witness ==
    \E q \in Invocations :
        /\ pc[q] = "done"
        /\ local[q].response = "skipped"
        /\ local[q].requests = 0
        /\ \E e \in local[q].cacheEntry :
               /\ e.lastFetched > local[q].now - CACHE_DURATION_MINUTES
               /\ e \in apiCache
               /\ footballScores # {}
               /\ \A r \in footballScores : r.lastUpdated = e.lastFetched

(***************************************************************************)
(* Specification SpecPages: fetchAllPages and fetchFootballScores against  *)
(* every upstream of up to MaxPages pages of fixtures and one page of odds. *)
(***************************************************************************)

\* Number of pages the upstream holds of the fixtures of a date.
MaxPages == 3

PageKinds == {"ok", "noResponse", "non2xx", "unparsable", "rejected"}

\* The fixture on page k of the date.
pageFixture(k) == ApiFixture(200 + k, <<2025, 4, 12, 10 + k>>, 39, "NS", Null, Null)

FixturePages ==
    [1..MaxPages -> PageKinds]

fixturesUpstreamOf(total, kinds) ==
    [total |-> total,
     pages |-> [k \in 1..MaxPages |->
                   [kind |-> kinds[k], response |-> <<pageFixture(k)>>]]]

oddsUpstreamOf(kind) ==
    [total |-> Null,
     pages |-> <<[kind |-> kind,
                  response |-> [k \in 1..MaxPages |-> FullOdds(200 + k)]]>>]

PageInit ==
    /\ pageInput \in {[fixtures |-> fixturesUpstreamOf(total, kinds),
                       odds     |-> oddsUpstreamOf(oddsKind)] :
                         total \in {Null} \cup (1..MaxPages),
                         kinds \in FixturePages,
                         oddsKind \in PageKinds}
    /\ pageOutput = NoResult
    /\ pagePhase = "input"
    /\ DateIdle
    /\ AsmIdle
    /\ EvalIdle
    /\ CronIdle

CallFetch ==
    /\ pagePhase = "input"
    /\ pageOutput' =
           [fixtures |-> fetchAllPages(pageInput.fixtures),
            returned |-> fetchFootballScoresPaged(LEAGUE_IDS, pageInput.fixtures,
                                                  pageInput.odds)]
    /\ pagePhase' = "returned"
    /\ UNCHANGED <<pageInput, dateVars, asmVars, evalVars, cronVars>>

PageNext == CallFetch

SpecPages == PageInit /\ [][PageNext]_vars

(***************************************************************************)
(* Claims about fetchAllPages and the failures of requests (C16, C17, C20). *)
(***************************************************************************)

\* The paging total of the date, 1 when the first page reports none.
reportedTotal == IF pageInput.fixtures.total = Null THEN 1 ELSE pageInput.fixtures.total

kindOfPage(k) == pageInput.fixtures.pages[k].kind

pageFailed(k) == kindOfPage(k) \in {"non2xx", "unparsable"}

pageRequested(k) == k \in Range(pageOutput.fixtures.requests)

noneRejected == \A k \in 1..reportedTotal : kindOfPage(k) # "rejected"

\* The pages 1..n in increasing order.
upTo(n) == [k \in 1..n |-> k]

\* The results of the pages from..to that answered with a list, in page
\* order.
RECURSIVE resultsOfPages(_, _)
resultsOfPages(from, to) ==
    IF from > to THEN <<>>
    ELSE (IF kindOfPage(from) = "ok" THEN <<pageFixture(from)>> ELSE <<>>)
         \o resultsOfPages(from + 1, to)

\* C16 as stated: in fetchAllPages a page whose request fails (non-2xx or
\* unparsable body) is skipped without aborting the rest: every other page
\* 1..total of the date is still requested and its results are in the list
\* returned.
C16_Original ==
    (pagePhase = "returned" /\ noneRejected) =>
        \A k \in 1..reportedTotal :
            pageFailed(k) =>
                \A j \in (1..reportedTotal) \ {k} :
                    /\ pageRequested(j)
                    /\ kindOfPage(j) = "ok" =>
                           pageFixture(j) \in Range(pageOutput.fixtures.allResponses)

\* C16 as amended: a page after the first whose request fails (non-2xx or
\* unparsable body) is skipped without aborting the rest: the page after it,
\* up to total, is still requested, and the list returned holds the results
\* of exactly the requested pages that succeeded, in page order; when the
\* first page fails, no other page is requested and the list is empty.
C16_FailedPageSkipped ==
    pagePhase = "returned" =>
        IF pageFailed(1)
        THEN /\ pageOutput.fixtures.requests = <<1>>
             /\ pageOutput.fixtures.allResponses = <<>>
             /\ ~pageOutput.fixtures.threw
        ELSE /\ \A k \in 2..(reportedTotal - 1) :
                    (pageRequested(k) /\ pageFailed(k)) => pageRequested(k + 1)
             /\ kindOfPage(1) # "rejected" =>
                    LET last == Len(pageOutput.fixtures.requests)
                    IN  /\ pageOutput.fixtures.requests = upTo(last)
                        /\ pageOutput.fixtures.allResponses = resultsOfPages(1, last)
             /\ (kindOfPage(1) # "rejected" /\ noneRejected) =>
                    pageOutput.fixtures.requests = upTo(reportedTotal)

\* The second of three pages failed, and the third was requested and is in
\* the list with the first.
C16_Witness ==
    /\ pagePhase = "returned"
    /\ reportedTotal = 3
    /\ kindOfPage(1) = "ok"
    /\ pageFailed(2)
    /\ kindOfPage(3) = "ok"
    /\ pageOutput.fixtures.requests = <<1, 2, 3>>
    /\ pageOutput.fixtures.allResponses = <<pageFixture(1), pageFixture(3)>>

\* C17: during fetchFootballScores any failure of an individual request
\* (rejected request, non-2xx response, unparsable body) degrades to an
\* empty result for that page or date only: the function does not throw and
\* returns the rows assembled from the units of work that succeeded.
C17_NeverThrows ==
    pagePhase = "returned" =>
        /\ ~pageOutput.returned.threw
        /\ \A k \in 1..MaxPages :
               (/\ pageRequested(k)
                /\ kindOfPage(k) = "ok"
                /\ kindOfPage(1) = "ok"
                /\ pageInput.odds.pages[1].kind = "ok")
               => \E r \in Range(pageOutput.returned.scores) :
                      r.fixtureId = pageFixture(k).fixture.id

\* C20: when every page request succeeds, fetchAllPages requests page 1 and
\* then pages 2..total in increasing order, total being the paging total of
\* page 1 (1 when none is reported), stops after exactly total requests, and
\* returns the pages' results concatenated in page order.
C20_AllPagesInOrder ==
    (/\ pagePhase = "returned"
     /\ \A k \in 1..reportedTotal : kindOfPage(k) \in {"ok", "noResponse"})
    => /\ pageOutput.fixtures.requests = upTo(reportedTotal)
       /\ Len(pageOutput.fixtures.requests) = reportedTotal
       /\ pageOutput.fixtures.allResponses = resultsOfPages(1, reportedTotal)
       /\ ~pageOutput.fixtures.threw

\* Three pages were reported, all three answered, and the list returned holds
\* their fixtures in page order.
C20_Witness ==
    /\ pagePhase = "returned"
    /\ pageInput.fixtures.total = 3
    /\ \A k \in 1..3 : kindOfPage(k) = "ok"
    /\ pageOutput.fixtures.requests = <<1, 2, 3>>
    /\ pageOutput.fixtures.allResponses
           = <<pageFixture(1), pageFixture(2), pageFixture(3)>>

(***************************************************************************)
(* Claims about the credential and the marker (C18, C19).                  *)
(***************************************************************************)

AllInvocations == Invocations \cup LiveInvocations

\* C18: when RAPIDAPI_KEY is absent, fetchFootballScores and
\* fetchLiveFixtures raise an error before issuing any upstream request, and
\* the cron pass that called them writes nothing to the cache table, the
\* forecast history or the marker.
C18_NoKeyNoWrite ==
    [][\A p \in AllInvocations :
          /\ ~local'[p].rapidApiKey =>
                 /\ pc'[p] = "done"
                 /\ local'[p].response = "error500"
                 /\ local'[p].requests = 0
          /\ (pc'[p] # pc[p] /\ (~local[p].rapidApiKey \/ ~local'[p].rapidApiKey)) =>
                 UNCHANGED dbVars]_vars

\* A base-data request and a live-score request have both found the
\* credential missing and answered 500, and the cache table and the marker
\* are as an earlier pass left them.
C18_Witness ==
    \E p, q \in Invocations, l \in LiveInvocations :
        /\ ~local[p].rapidApiKey
        /\ local[p].response = "error500"
        /\ ~local[l].rapidApiKey
        /\ local[l].response = "error500"
        /\ pc[q] = "returned"
        /\ footballScores # {}
        /\ \A r \in footballScores : r.lastUpdated < local[p].now
        /\ \A m \in apiCache : m.lastFetched < local[p].now

markerRows(table) == {m \in table : m.key = cacheKey}

idsOfFixtures(fixtures) == [i \in DOMAIN fixtures |-> fixtures[i].fixture.id]

idsOfRows(rows) == [i \in DOMAIN rows |-> rows[i].fixtureId]

\* The input fixtures that survive the league and odds filters and kick off
\* at instant t, in input order.
survivingAt(t) ==
    SelectSeq(allApiFixtures,
              LAMBDA f : /\ f.league.id \in LEAGUE_IDS
                         /\ CompleteTripleFor(f.fixture.id)
                         /\ parseISO(f.fixture.date) = t)

\* The output rows that kick off at instant t, in output order.
outputAt(t) == SelectSeq(combinedScores, LAMBDA r : parseISO(r.startTime) = t)

FinishedAt == StartClock + 2 * TickMinutes

\* fixtures?date=.. at the instant now: 102 kicks off first, then 101, then
\* 105, so they get the row numbers 1, 2 and 3.
TimelineFixtures(now) ==
    IF now < FinishedAt
    THEN <<ApiFixture(101, <<2025, 4, 12, 14>>, 39, "NS", Null, Null),
           ApiFixture(102, <<2025, 4, 12, 11>>, 140, "NS", Null, Null),
           ApiFixture(105, <<2025, 4, 12, 16>>, 39, "NS", Null, Null)>>
    ELSE <<ApiFixture(101, <<2025, 4, 12, 14>>, 39, "FT", 2, 1),
           ApiFixture(102, <<2025, 4, 12, 11>>, 140, "FT", Null, Null),
           ApiFixture(105, <<2025, 4, 12, 16>>, 39, "FT", 1, 0)>>

TimelineOdds == <<FullOdds(101), FullOdds(102), FullOdds(105)>>

\* fixtures?live=all at the instant now.
TimelineLive(now) ==
    IF now < FinishedAt
    THEN <<ApiFixture(101, <<2025, 4, 12, 14>>, 39, "1H", 0, 0)>>
    ELSE <<ApiFixture(102, <<2025, 4, 12, 11>>, 140, "FT", Null, Null),
           ApiFixture(105, <<2025, 4, 12, 16>>, 39, "FT", 3, 0),
           ApiFixture(101, <<2025, 4, 12, 14>>, 39, "FT", 0, 1)>>

TimelineNext ==
    \/ Tick
    \/ \E p \in Invocations : BaseStart(p)
    \/ \E p \in Invocations : BaseFetch(p, {TimelineFixtures(clock)}, {TimelineOdds})
    \/ \E p \in Invocations : BaseCommit(p)
    \/ \E p \in Invocations : BaseAbort(p)
    \/ \E p \in Invocations : BaseReturn(p)
    \/ \E p \in LiveInvocations : LiveStart(p, {TimelineLive(clock)})
    \/ \E p \in LiveInvocations : LiveFind(p)
    \/ \E p \in LiveInvocations : LiveUpdate(p)
    \/ \E p \in LiveInvocations : LiveHistory(p)
    \/ \E p \in LiveInvocations : LiveFail(p)
    \/ \E p \in LiveInvocations : LiveReturn(p)

SpecTimeline == Init /\ [][TimelineNext]_vars

(***************************************************************************)
(* Claim about fixtures that finish without a label or without goals       *)
(* (C22, checked under SpecTimeline).                                      *)
(***************************************************************************)

\* No forecast label for the row number, or a goal that is not a number.
Unevaluable(rowNumber, score) ==
    \/ getForecast(rowNumber) = NoForecast
    \/ score.home = Null
    \/ score.away = Null

\* The fetched row is finished and no stored row of its fixture is.
BecomesFinished(currentScore) ==
    /\ currentScore.status.short = "FT"
    /\ \A r \in rowsOf(footballScores, currentScore.fixtureId) : r.status.short # "FT"

\* After the step the cache row of the fetched row carries its status and
\* score and the instant of the pass.
CacheRowWritten(currentScore, now) ==
    \E r \in footballScores' :
        /\ r.fixtureId = currentScore.fixtureId
        /\ r.status = currentScore.status
        /\ r.score = currentScore.score
        /\ r.lastUpdated = now

\* The live handler's update statement is executed in this step.
LiveUpdates(p) ==
    /\ pc[p] = "update"
    /\ pc'[p] # "update"
    /\ local'[p].response # "error500"

\* The live fixture at hand is finished, the stored row read for it is not,
\* and the stored row number has no label or a live goal is not a number.
LiveGap(p) ==
    LET liveFixture == local[p].liveFixtures[local[p].i]
    IN  \E e \in local[p].existingData :
            /\ liveFixture.fixture.status.short = "FT"
            /\ e.status.short # "FT"
            /\ Unevaluable(e.rowNumber, liveFixture.goals)

\* The live handler goes on with the next live fixture, or answers when
\* there is none left.
LiveGoesOn(p) ==
    IF local[p].i < Len(local[p].liveFixtures)
    THEN pc'[p] = "find" /\ local'[p].i = local[p].i + 1
    ELSE pc'[p] = "done" /\ local'[p].response = "ok"

\* C22: a fixture that turns FT in a base-data or live-score pass while its
\* row number has no forecast label or a goal is not a number gets no
\* forecast-history row; the pass raises no error, writes the fixture's
\* cache row all the same, and processes the other fixtures.
C22_GapSkipsHistoryOnly ==
    [][/\ \A p \in Invocations :
              Commits(p) =>
                  \A s \in Range(local[p].fetchedScores) :
                      (BecomesFinished(s) /\ Unevaluable(s.rowNumber, s.score)) =>
                          /\ NoHistoryRowWritten(s)
                          /\ local'[p].response = "ok"
                          /\ \A s2 \in Range(local[p].fetchedScores) :
                                 /\ CacheRowWritten(s2, local[p].now)
                                 /\ BaseWrites(s2) => OneHistoryRowWritten(s2)
       /\ \A p \in LiveInvocations :
              (LiveUpdates(p) /\ LiveGap(p)) =>
                  LET liveFixture == local[p].liveFixtures[local[p].i]
                  IN  /\ forecastHistory' = forecastHistory
                      /\ LiveGoesOn(p)
                      /\ fixtureIdsIn(footballScores') = fixtureIdsIn(footballScores)
                      /\ \A r \in rowsOf(footballScores', liveFixture.fixture.id) :
                             /\ r.status = liveFixture.fixture.status
                             /\ r.score = liveFixture.goals
                             /\ r.lastUpdated = local[p].now]_vars

\* C22 witness: the live handler found 102 finished with no goals reported,
\* wrote its cache row and is at the next live fixture, while the base-data
\* pass that fetched the three fixtures finished (102 without goals, 105 in
\* row 3, which has no label) is about to commit; no history row exists.
C22_Witness ==
    /\ \E p \in LiveInvocations :
           /\ pc[p] = "find"
           /\ local[p].i = 2
           /\ local[p].liveFixtures[1].fixture.id = 102
           /\ \E r \in footballScores :
                  /\ r.fixtureId = 102
                  /\ r.status.short = "FT"
                  /\ r.score.home = Null
                  /\ r.lastUpdated = local[p].now
    /\ \E r \in footballScores : r.fixtureId = 105 /\ r.status.short = "NS" /\ r.rowNumber = 3
    /\ \E q \in Invocations :
           /\ pc[q] = "tx"
           /\ \E s \in Range(local[q].fetchedScores) :
                  s.fixtureId = 105 /\ s.status.short = "FT" /\ s.rowNumber = 3
    /\ forecastHistory = {}

(***************************************************************************)
(* Specification SpecDates: the per-date requests of fetchFootballScores.  *)
(* dates.map(..) starts one fetchAllPages call per date, the calls settle  *)
(* in any order, and the function goes on when Promise.all has resolved    *)
(* (or throws as soon as one call has rejected).                           *)
(***************************************************************************)

\* Number of dates of the section.
MaxDates == 2

\* A slot of the array Promise.all resolves to, before its promise settled.
Pending == [settled |-> FALSE, value |-> <<>>]

\* Mutant of settle: the value goes to the first free slot, so that the
\* array is in the order of completion.
settle_InCompletionOrder(results, i, value) ==
    LET k == CHOOSE k \in DOMAIN results :
                 /\ ~results[k].settled
                 /\ \A j \in 1..(k - 1) : results[j].settled
    IN  [results EXCEPT ![k] = [settled |-> TRUE, value |-> value]]

\* Promise.all: the value of the i-th promise is the i-th element of the
\* array, whenever the promise is fulfilled.
settle(results, i, value) ==
    [results EXCEPT ![i] = [settled |-> TRUE, value |-> value]]

\* The array Promise.all resolves to.
valuesOf(results) == [i \in DOMAIN results |-> results[i].value]

\* An upstream that answers the requests of a date in one page.
onePage(kind, response) ==
    [total |-> Null, pages |-> <<[kind |-> kind, response |-> response]>>]

\* What the upstream may answer to fixtures?date=..: 101 or 102, which
\* kick off at the same instant, an error status, or no answer at all.
FixtureAnswers ==
    {onePage("ok", <<ApiFixture(101, <<2025, 4, 12, 14>>, 39, "NS", Null, Null)>>),
     onePage("ok", <<ApiFixture(102, <<2025, 4, 12, 14>>, 140, "FT", 2, 2)>>),
     onePage("non2xx", <<>>),
     onePage("rejected", <<>>)}

DrawAwayHome ==
    <<[value |-> "Draw", odd |-> "3.10"],
      [value |-> "Away", odd |-> "2.20"],
      [value |-> "Home", odd |-> "2.90"]>>

\* What the upstream may answer to odds?date=..: the odds of both
\* fixtures, other odds of 101, or a body that does not parse.
OddsAnswers ==
    {onePage("ok", <<FullOdds(101), FullOdds(102)>>),
     onePage("ok", <<OddsFixture(101, <<Bookmaker(TARGET_BOOKMAKER_ID,
                                                  MATCH_WINNER_BET_ID, DrawAwayHome)>>)>>),
     onePage("unparsable", <<>>)}

DatesInit ==
    /\ pageInput \in {[fixtures |-> f, odds |-> o] :
                         f \in [1..MaxDates -> FixtureAnswers],
                         o \in [1..MaxDates -> OddsAnswers]}
    /\ pageOutput = NoResult
    /\ pagePhase = "input"
    /\ DateIdle
    /\ AsmIdle
    /\ EvalIdle
    /\ CronIdle

\* dateRangeInfo.dates.map((date) => fetchAllPages(..)): every request of
\* the phase is under way.
startRequests ==
    [results |-> [i \in 1..MaxDates |-> Pending],
     pending |-> 1..MaxDates,
     order   |-> <<>>]

StartFixtures ==
    /\ pagePhase = "input"
    /\ pageOutput' = startRequests
    /\ pagePhase' = "fixtures"
    /\ UNCHANGED <<pageInput, dateVars, asmVars, evalVars, cronVars>>

\* One fetchAllPages call of the phase settles: fulfilled, its list goes
\* into the array; rejected, Promise.all rejects and the function throws.
Settle(phase, upstreams, i) ==
    /\ pagePhase = phase
    /\ i \in pageOutput.pending
    /\ LET call == fetchAllPages(upstreams[i])
       IN  /\ pageOutput' =
                  [results |-> IF call.threw THEN pageOutput.results
                               ELSE settle(pageOutput.results, i, call.allResponses),
                   pending |-> pageOutput.pending \ {i},
                   order   |-> Append(pageOutput.order, i)]
           /\ pagePhase' = IF call.threw THEN "threw" ELSE phase
    /\ UNCHANGED <<pageInput, dateVars, asmVars, evalVars, cronVars>>

SettleFixtures(i) == Settle("fixtures", pageInput.fixtures, i)

SettleOdds(i) == Settle("odds", pageInput.odds, i)

\* await Promise.all(allFixturesPromises) has resolved: the lists are
\* flattened and filtered by league; with no fixture left the function
\* returns, else it starts the odds requests.
MergeFixtures ==
    /\ pagePhase = "fixtures"
    /\ pageOutput.pending = {}
    /\ allApiFixtures' = flatten(valuesOf(pageOutput.results))
    /\ IF Len(filterByLeague(allApiFixtures', LEAGUE_IDS)) = 0
       THEN /\ pagePhase' = "returned"
            /\ UNCHANGED pageOutput
       ELSE /\ pagePhase' = "odds"
            /\ pageOutput' = startRequests
    /\ UNCHANGED <<pageInput, allOddsFixtures, combinedScores, asmPhase,
                   dateVars, evalVars, cronVars>>

\* await Promise.all(allOddsPromises) has resolved: steps 3 and 4.
MergeOdds ==
    /\ pagePhase = "odds"
    /\ pageOutput.pending = {}
    /\ allOddsFixtures' = flatten(valuesOf(pageOutput.results))
    /\ combinedScores' = assemble(LEAGUE_IDS, allApiFixtures, allOddsFixtures')
    /\ pagePhase' = "returned"
    /\ UNCHANGED <<pageInput, pageOutput, allApiFixtures, asmPhase,
                   dateVars, evalVars, cronVars>>

DatesNext ==
    \/ StartFixtures
    \/ \E i \in 1..MaxDates : SettleFixtures(i)
    \/ MergeFixtures
    \/ \E i \in 1..MaxDates : SettleOdds(i)
    \/ MergeOdds

SpecDates == DatesInit /\ [][DatesNext]_vars

(***************************************************************************)
(* Claim about the order of completion (C23, checked under SpecDates).     *)
(***************************************************************************)

\* What the request of a date delivers: the list of a good answer, nothing
\* for a failed one.
deliveredBy(upstream) ==
    IF upstream.pages[1].kind = "ok" THEN upstream.pages[1].response ELSE <<>>

\* The lists of the dates one after the other, in the order of the dates.
inDateOrder(upstreams) ==
    flatten([i \in DOMAIN upstreams |-> deliveredBy(upstreams[i])])

\* C23: the requests of a phase are under way together, merging starts only
\* when all of them have settled, and the rows returned are those assembled
\* from the answers in the order of the dates, whatever the order in which
\* the requests completed.
C23_CompletionOrderIrrelevant ==
    [][/\ pagePhase' \in {"fixtures", "odds"} /\ pagePhase' # pagePhase
           => pageOutput'.pending = 1..MaxDates
       /\ pagePhase \in {"fixtures", "odds"} /\ pagePhase' \notin {pagePhase, "threw"}
           => /\ pageOutput.pending = {}
              /\ Len(pageOutput.order) = MaxDates
       /\ allApiFixtures' # allApiFixtures
           => allApiFixtures' = inDateOrder(pageInput.fixtures)
       /\ allOddsFixtures' # allOddsFixtures
           => allOddsFixtures' = inDateOrder(pageInput.odds)
       /\ pagePhase' = "returned" /\ pagePhase # "returned"
           => combinedScores' =
                  IF pagePhase = "fixtures" THEN <<>>
                  ELSE assemble(LEAGUE_IDS, inDateOrder(pageInput.fixtures),
                                inDateOrder(pageInput.odds))]_vars

\* C23 witness: the requests of the second date completed before those of
\* the first in the odds phase, the two dates hold different odds of 101, and
\* the rows are returned with 101 before 102 and the odds of the second date.
C23_Witness ==
    /\ pagePhase = "returned"
    /\ pageOutput # NoResult
    /\ pageOutput.order = <<2, 1>>
    /\ idsOfFixtures(allApiFixtures) = <<101, 102>>
    /\ idsOfRows(combinedScores) = <<101, 102>>
    /\ combinedScores[1].rowNumber = 1
    /\ combinedScores[1].odds.home = "2.90"
    /\ Len(allOddsFixtures) = 3
    /\ allOddsFixtures[1].fixture.id = 101 /\ allOddsFixtures[3].fixture.id = 101

(***************************************************************************)
(* Claim about the content of a forecast-history row (C24, checked under   *)
(* SpecCron).                                                              *)
(***************************************************************************)

\* The outcome of a score whose goals are numbers.
OutcomeOfGoals(score) ==
    IF score.home > score.away THEN "1"
    ELSE IF score.home < score.away THEN "2"
    ELSE "X"

\* The row's label is the table's label of the row's row number, its outcome
\* is "1", "X" or "2", and it is marked correct iff the label names the
\* outcome.
ConsistentHistoryRow(h) ==
    /\ h.forecast # NoForecast
    /\ h.forecast = getForecast(h.rowNumber)
    /\ h.actualOutcome \in {"1", "X", "2"}
    /\ h.isCorrect <=> h.actualOutcome \in OutcomesNamed(h.forecast)

\* C24: every forecast-history row is consistent in itself, and the outcome
\* a pass writes is that of the final score the pass used.
C24_HistoryRowConsistent ==
    [][/\ \A h \in forecastHistory' : ConsistentHistoryRow(h)
       /\ \A p \in Invocations :
              Commits(p) =>
                  \A s \in Range(local[p].fetchedScores) :
                      BaseWrites(s) =>
                          \A h \in historyOf(forecastHistory', s.fixtureId) :
                              h.weekSectionId = kickoffSection(s) =>
                                  h.actualOutcome = OutcomeOfGoals(s.score)
       /\ \A p \in LiveInvocations :
              LiveWrites(p) =>
                  LET liveFixture == local[p].liveFixtures[local[p].i]
                  IN  \A h \in historyOf(forecastHistory', liveFixture.fixture.id) :
                          h.actualOutcome = OutcomeOfGoals(liveFixture.goals)]_vars

\* C24 witness: a base-data pass found 101 finished 2-1 in row 2 and left
\* the row (X/2, outcome 1, not correct); the live handler, which had read
\* the stored row before, holds the score 0-1 and is about to write over it.
C24_Witness ==
    /\ \E q \in Invocations :
           /\ pc[q] = "done"
           /\ local[q].response = "ok"
           /\ \E s \in Range(local[q].fetchedScores) :
                  /\ s.fixtureId = 101
                  /\ s.rowNumber = 2
                  /\ s.score = [home |-> 2, away |-> 1]
    /\ \E h \in forecastHistory :
           /\ h.fixtureId = 101
           /\ h.rowNumber = 2
           /\ h.forecast = "X/2"
           /\ h.actualOutcome = "1"
           /\ h.isCorrect = FALSE
    /\ \E p \in LiveInvocations :
           /\ pc[p] = "history"
           /\ local[p].liveFixtures[local[p].i].fixture.id = 101
           /\ local[p].liveFixtures[local[p].i].goals = [home |-> 0, away |-> 1]

(***************************************************************************)
(* Claim about when a base-data pass writes history (C25, checked under    *)
(* Spec).                                                                  *)
(***************************************************************************)

\* A row of the fixture is stored as finished when the step begins.
StoredFinished(fixtureId) ==
    \E r \in rowsOf(footballScores, fixtureId) : r.status.short = "FT"

\* C25: the history of a fixture changes only in the commit of a base-data
\* pass that fetched the fixture as FT while no stored row of it was FT; a
\* pass that finds the fixture stored as FT leaves its history as it is.
C25_HistoryOnlyOnTransition ==
    [][/\ \A id \in fixtureIdsIn(forecastHistory) \cup fixtureIdsIn(forecastHistory') :
              historyOf(forecastHistory', id) # historyOf(forecastHistory, id) =>
                  \E p \in Invocations :
                      /\ Commits(p)
                      /\ ~StoredFinished(id)
                      /\ \E s \in Range(local[p].fetchedScores) :
                             s.fixtureId = id /\ s.status.short = "FT"
       /\ \A p \in Invocations :
              Commits(p) =>
                  \A s \in Range(local[p].fetchedScores) :
                      StoredFinished(s.fixtureId) => NoHistoryRowWritten(s)]_vars

\* C25 witness: 101 was stored as finished in row 1 with its history row; a
\* later pass fetched it finished in row 2 and committed, and the history
\* row still names row 1.
C25_Witness ==
    /\ \E q \in Invocations :
           /\ pc[q] = "done"
           /\ local[q].response = "ok"
           /\ 101 \in local[q].existingFixtureIds
           /\ \E s \in Range(local[q].fetchedScores) :
                  s.fixtureId = 101 /\ s.status.short = "FT" /\ s.rowNumber = 2
    /\ \E r \in footballScores :
           r.fixtureId = 101 /\ r.status.short = "FT" /\ r.rowNumber = 2
    /\ historyOf(forecastHistory, 101) # {}
    /\ \A h \in historyOf(forecastHistory, 101) : h.rowNumber = 1

(***************************************************************************)
(* Claim about finished fixtures staying finished (C26, checked under      *)
(* SpecTimeline, whose upstream never takes a finished fixture back).      *)
(***************************************************************************)

\* C26: a cached row whose status is FT keeps the status FT for as long as
\* the row is there, whatever the interleaving of base-data and live-score
\* passes.
C26_FinishedStaysFinished ==
    [][\A r \in footballScores :
          r.status.short = "FT" =>
              \A r2 \in rowsOf(footballScores', r.fixtureId) :
                  r2.status.short = "FT"]_vars

(***************************************************************************)
(* Claim about a pass with an empty batch (C27, checked under Spec).       *)
(***************************************************************************)

\* C27: a base-data pass whose fetch gave no row commits all the same: the
\* cache table is empty after it, the marker carries the instant the pass
\* read at its start, and the history is as before.
C27_EmptyBatchCommits ==
    [][\A p \in Invocations :
          (Commits(p) /\ local[p].fetchedScores = <<>>) =>
              /\ footballScores' = {}
              /\ markerRows(apiCache') = {[key |-> cacheKey, lastFetched |-> local[p].now]}
              /\ forecastHistory' = forecastHistory]_vars

\* C27 witness: a pass that fetched nothing committed after a pass that had
\* stored rows; the cache table is empty and the marker is the pass's.
C27_Witness ==
    \E q \in Invocations :
        /\ pc[q] = "done"
        /\ local[q].response = "ok"
        /\ local[q].fetchedScores = <<>>
        /\ local[q].requests > 0
        /\ local[q].existingFixtureIds # {}
        /\ local[q].idsToDelete = local[q].existingFixtureIds
        /\ footballScores = {}
        /\ markerRows(apiCache) = {[key |-> cacheKey, lastFetched |-> local[q].now]}

(***************************************************************************)
(* Claim about the row numbers in the cache table (C28, checked under      *)
(* SpecCron, where the fixture ids of every batch are pairwise distinct).  *)
(***************************************************************************)

\* The row number stored for each cached fixture.
rowNumbersOf(table) == {<<r.fixtureId, r.rowNumber>> : r \in table}

\* A step of the live-score handler.
LiveSteps(p) == pc'[p] # pc[p] \/ local'[p] # local[p]

fixedColumns(r) ==
    [fixtureId |-> r.fixtureId, rowNumber |-> r.rowNumber, odds |-> r.odds,
     day |-> r.day, startTime |-> r.startTime, home |-> r.home,
     away |-> r.away, league |-> r.league]

\* The live fixture at hand was looked up and no row was found.
LiveFindsNothing(p) ==
    /\ pc[p] = "find"
    /\ pc'[p] # "find" \/ local'[p].i # local[p].i
    /\ local'[p].response # "error500"
    /\ rowsOf(footballScores, local[p].liveFixtures[local[p].i].fixture.id) = {}

\* C29: no step of the live-score handler adds or removes a cache row or
\* changes another column than status, score and lastUpdated; a live
\* fixture that is not found in the cache table is passed over with no
\* write to either table.
C29_LiveWritesThreeColumns ==
    [][\A p \in LiveInvocations :
          /\ LiveSteps(p) =>
                 /\ {fixedColumns(r) : r \in footballScores'}
                        = {fixedColumns(r) : r \in footballScores}
                 /\ Cardinality(footballScores') = Cardinality(footballScores)
                 /\ apiCache' = apiCache
                 /\ forecastHistory' # forecastHistory =>
                        /\ pc[p] = "history"
                        /\ local[p].existingData # {}
          /\ LiveFindsNothing(p) =>
                 /\ footballScores' = footballScores
                 /\ forecastHistory' = forecastHistory
                 /\ pc'[p] \in {"find", "done"}
                 /\ LiveGoesOn(p)]_vars

\* C29 witness: the live endpoint reported 102 and 101 finished while only
\* 101 was cached: after the pass there is still no row and no history of
\* 102, and the row of 101 has the live score and its row number and odds.
C29_Witness ==
    /\ fixtureIdsIn(footballScores) = {101}
    /\ historyOf(forecastHistory, 102) = {}
    /\ \E p \in LiveInvocations :
           /\ pc[p] = "done"
           /\ local[p].response = "ok"
           /\ idsOfFixtures(local[p].liveFixtures) = <<102, 101>>
           /\ \E r \in footballScores :
                  /\ r.status.short = "FT"
                  /\ r.score = [home |-> 0, away |-> 1]
                  /\ r.lastUpdated = local[p].now
                  /\ r.rowNumber = 1
                  /\ r.odds = [home |-> "1.50", draw |-> "3.40", away |-> "6.00"]
    /\ \A q \in Invocations : pc[q] \in {"idle", "returned"}

(***************************************************************************)
(* The history-cleanup job (cleanup-history): the section ids to keep and  *)
(* the delete statement.                                                   *)
(***************************************************************************)

WEEKEND_SECTION_TYPE == "SatMon"

HISTORY_WEEKS_TO_KEEP == 3

\* subWeeks(date, n)
subWeeks(t, n) == addDays(t, -7 * n)

\* startOfWeek(date, { weekStartsOn: 1 }): Monday 00:00 of the date's week.
startOfWeek(t) == 24 * startOfISOWeek(DayOf(t))

\* Mutant of saturdayOfTargetWeek: the target date itself is taken.
saturdayOfTargetWeek_TargetDate(targetDate) == targetDate

\* saturdayOfTargetWeek = addDays(startOfTargetWeek, 5)
saturdayOfTargetWeek(targetDate) == addDays(startOfWeek(targetDate), 5)

\* The body of the loop: the section id pushed for one target date.
weekendSectionId(targetDate) ==
    <<getYear(saturdayOfTargetWeek(targetDate)),
      getISOWeek(saturdayOfTargetWeek(targetDate)),
      WEEKEND_SECTION_TYPE>>

\* getWeekendSectionIdsToKeep(count), nowSofia being the wall clock of Sofia.
getWeekendSectionIdsToKeep(nowSofia, count) ==
    [k \in 1..count |-> weekendSectionId(subWeeks(nowSofia, k - 1))]

\* db.delete(forecastHistory).where(not(inArray(weekSectionId, ids)))
deleteHistoryNotIn(table, sectionIdsToKeep) ==
    {h \in table : h.weekSectionId \in Range(sectionIdsToKeep)}

(***************************************************************************)
(* Specification SpecCleanup: the cleanup job run at the instants of       *)
(* SpecDate on a history that holds one row for every section id, of both  *)
(* types, of the days from five weeks before to two weeks after the run.   *)
(***************************************************************************)

\* A history row of the section that a day belongs to by its own year and
\* ISO week.
historyRowOfDay(day, sectionType) ==
    [fixtureId     |-> 1000 + day,
     rowNumber     |-> 1,
     weekSectionId |-> <<getYear(24 * day), getISOWeek(24 * day), sectionType>>,
     forecast      |-> "1/X",
     isCorrect     |-> TRUE,
     actualOutcome |-> "1"]

historyAround(instant) ==
    {historyRowOfDay(DayOf(instant) + k, sectionType) :
         k \in (-35)..14, sectionType \in {"SatMon", "TueFri"}}

CleanupInit ==
    /\ referenceDateInput \in DateInputs
    /\ dateRangeInfo = NoResult
    /\ forecastHistory = historyAround(referenceDateInput)
    /\ clock = 0
    /\ footballScores = {}
    /\ apiCache = {}
    /\ pc = [p \in Invocations \cup LiveInvocations |-> "idle"]
    /\ local = [p \in Invocations \cup LiveInvocations |->
                   IF p \in Invocations THEN InitialLocal ELSE InitialLiveLocal]
    /\ AsmIdle
    /\ EvalIdle
    /\ PageIdle

\* GET of cleanup-history: the ids are computed from the current time and
\* the rows of every other section are deleted.
CleanupHistory ==
    /\ dateRangeInfo = NoResult
    /\ LET sectionIdsToKeep ==
               getWeekendSectionIdsToKeep(toZonedTime(referenceDateInput),
                                          HISTORY_WEEKS_TO_KEEP)
       IN  /\ forecastHistory' = deleteHistoryNotIn(forecastHistory, sectionIdsToKeep)
           /\ dateRangeInfo' = [sectionIdsToKeep |-> sectionIdsToKeep,
                                deleted |-> forecastHistory \ forecastHistory']
    /\ UNCHANGED <<referenceDateInput, clock, footballScores, apiCache, pc, local,
                   asmVars, evalVars, pageVars>>

CleanupNext == CleanupHistory

SpecCleanup == CleanupInit /\ [][CleanupNext]_vars

(***************************************************************************)
(* Claim about the cleanup job (C30, checked under SpecCleanup).           *)
(***************************************************************************)

\* The Saturday, as a day number, of the Monday-to-Sunday week that lies
\* weeksBack weeks before the week of the run.
SaturdayOfWeekBack(weeksBack) ==
    LET today == DayOf(toZonedTime(referenceDateInput))
    IN  today - ((getDay(24 * today) + 6) % 7) + 5 - 7 * weeksBack

\* The three ids: year and week number of the Saturday of the current week
\* and of the two weeks before.
IdsOfThreeSaturdays ==
    {<<CivilFromDays(SaturdayOfWeekBack(k)).year,
       getISOWeek(24 * SaturdayOfWeekBack(k)),
       "SatMon">> : k \in 0..2}

\* C30: the cleanup job deletes exactly the rows whose weekSectionId is none
\* of the three SatMon ids of the current week and the two weeks before,
\* year and week number taken from each week's Saturday; the rows of those
\* three ids stay as they are.
C30_CleanupKeepsThreeWeekends ==
    [][/\ forecastHistory' = {h \in forecastHistory : h.weekSectionId \in IdsOfThreeSaturdays}
       /\ dateRangeInfo'.deleted =
              {h \in forecastHistory : h.weekSectionId \notin IdsOfThreeSaturdays}]_vars

\* C30 witness: run on Sunday 2023-01-01 in Sofia, the job kept the rows
\* of 2022-W52, W51 and W50 SatMon and deleted those of 2023-W52-SatMon
\* and of 2022-W52-TueFri.
C30_Witness ==
    /\ dateRangeInfo # NoResult
    /\ formatDate(toZonedTime(referenceDateInput)) = <<2023, 1, 1>>
    /\ {h.weekSectionId : h \in forecastHistory}
           = {<<2022, 52, "SatMon">>, <<2022, 51, "SatMon">>, <<2022, 50, "SatMon">>}
    /\ \E h \in dateRangeInfo.deleted : h.weekSectionId = <<2023, 52, "SatMon">>
    /\ \E h \in dateRangeInfo.deleted : h.weekSectionId = <<2022, 52, "TueFri">>

====
